---- MODULE Spec2Model ----
(***************************************************************************)
(* L88-Full backend: the agentic RAG graph (graph/), the query cache       *)
(* (cache.py), run_chat (services/chat_service.py) and the per-session     *)
(* index files written by ingest/delete (services/document_service.py,     *)
(* retrieval/vectorstore.py, retrieval/bm25store.py).                      *)
(*                                                                         *)
(* Five specifications share the variables:                                *)
(*   Spec      - run_chat executing the graph node by node over a session  *)
(*               whose documents were ingested before, with the cache and  *)
(*               the clock;                                                *)
(*   SpecCache - cache_set and cache_get called directly, with the clock;  *)
(*   SpecStore - completed ingest/delete/toggle calls and the retrieval    *)
(*               node's gathering, one call at a time;                     *)
(*   SpecInval - the cache across completed ingest and delete calls;       *)
(*   SpecConc  - ingest, delete and index loads interleaved file by file,  *)
(*               with crashes.                                             *)
(***************************************************************************)
EXTENDS Integers, Sequences, FiniteSets, TLC

\* ---------------------------------------------------------------- config.py
MAX_REWRITES == 2
RETRIEVE_TOP_K == 20
RERANK_TOP_N == 5
\* cache.py
TTL_SECONDS == 3600

\* ------------------------------------------------------------------- bounds
MaxDocs == 2      \* documents ever ingested into the session (SpecStore)
MaxInitDocs == 1  \* documents the session holds when Spec starts
MaxChunks == 1    \* chunks the chunker yields for one file (0..MaxChunks)
MaxRuns == 2      \* run_chat calls in one behaviour
MaxTicks == 2     \* clock advances in one behaviour
MaxLibChunks == 1 \* chunks in the shared library index
MaxSets == 2      \* direct cache_set calls in one behaviour
MaxKeys == 2      \* chunk keys the session searches can return (SpecFuse)
MaxQueries == 2   \* queries of one retrieval (SpecFuse); the rewriter yields <= 3
MaxPages == 2     \* pages of a parsed PDF (chunk_pages)

\* A file of the index directory: absent, or present with its content.
NoFile == [present |-> FALSE, content |-> <<>>]
File(c) == [present |-> TRUE, content |-> c]

SessionIds == {"s1", "s2"}
\* The session whose documents, index directory and graph runs are modelled.
sid == "s1"

\* ------------------------------------------------------------------ queries
\* A query is a sequence of symbols: a blank, or a word in lower or upper case.
Blank == " "
LowerOf == [x \in {" ", "what", "WHAT", "brief", "the"} |->
              CASE x = "WHAT" -> "what" [] OTHER -> x]

Queries == { <<"what">>, <<" ", "WHAT">>, <<"brief">> }

\* str.lower()
Lower(q) == [i \in 1..Len(q) |-> LowerOf[q[i]]]

RECURSIVE LStrip(_)
LStrip(q) == IF q # <<>> /\ Head(q) = Blank THEN LStrip(Tail(q)) ELSE q

RECURSIVE RStrip(_)
RStrip(q) == IF q # <<>> /\ q[Len(q)] = Blank
               THEN RStrip(SubSeq(q, 1, Len(q) - 1)) ELSE q

\* str.strip()
Strip(q) == RStrip(LStrip(q))

\* router.py _SUMMARIZE_KEYWORDS (the words of the symbol alphabet in the set)
SUMMARIZE_KEYWORDS == {"brief"}

make_key_as_typed(session_id, query) == <<session_id, ":">> \o query

\* cache.py _make_key: sha256 of "<session_id>:<query.strip().lower()>".  The
\* key is the hashed string itself: the digest is taken as collision-free.
make_key(session_id, query) == <<session_id, ":">> \o Lower(Strip(query))

CacheKeys == {make_key(s, q) : s \in SessionIds, q \in Queries}

\* ------------------------------------------------------------------- chunks
DocIds == 1..MaxDocs

\* chunker.py chunk_pages + document_service.py stamping: the chunks of a file
\* that yields n chunks, chunk_idx counted from 0.
\* ingestion/chunker.py.  A parsed PDF is the list of its pages, pages[i]
\* being the number of splits the splitter makes of the text of page i (0: a
\* blank page, which parse_pdf leaves out).
Layouts == UNION {[1..k -> 0..MaxChunks] : k \in 0..MaxPages}

RECURSIVE chunk_pages_per_page(_, _, _)
chunk_pages_per_page(pages, page, chunk_idx) ==
  IF page > Len(pages) THEN <<>>
  ELSE [i \in 1..pages[page] |-> [page |-> page, chunk_idx |-> i - 1]]
         \o chunk_pages_per_page(pages, page + 1, chunk_idx)

\* chunk_pages from page `page` on, chunk_idx being the running counter.
RECURSIVE chunk_pages_from(_, _, _)
chunk_pages_from(pages, page, chunk_idx) ==
  IF page > Len(pages) THEN <<>>
  ELSE [i \in 1..pages[page] |->
          [page |-> page, chunk_idx |-> chunk_idx + i - 1]]
         \o chunk_pages_from(pages, page + 1, chunk_idx + pages[page])

chunk_pages(pages) == chunk_pages_from(pages, 1, 0)

\* The chunks ingest_document stores for document d of a file that yields n
\* chunks (a file of n pages with one split each): chunk_pages' chunks with
\* doc_id and source added.
ChunksOf(d, n) ==
  LET chunks == chunk_pages([i \in 1..n |-> 1])
  IN [i \in 1..Len(chunks) |->
        [doc_id |-> d, chunk_idx |-> chunks[i].chunk_idx,
         page |-> chunks[i].page, source |-> "session"]]

LibChunks(n) ==
  [i \in 1..n |-> [doc_id |-> 0, chunk_idx |-> i - 1, source |-> "library"]]

\* retrieval.py: key = (chunk.get("doc_id", ""), chunk.get("chunk_idx", 0))
KeyOf(c) == <<c.doc_id, c.chunk_idx>>

Min(a, b) == IF a <= b THEN a ELSE b

Range(s) == {s[i] : i \in 1..Len(s)}

\* A sequence holding the elements of a finite set once each.
RECURSIVE SeqOfSet(_)
SeqOfSet(S) ==
  IF S = {} THEN <<>>
  ELSE LET x == CHOOSE y \in S : TRUE IN <<x>> \o SeqOfSet(S \ {x})

\* Filter a sequence, keeping order.
RECURSIVE SelectChunks(_, _)
SelectChunks(s, keep) ==
  IF s = <<>> THEN <<>>
  ELSE (IF Head(s) \in keep THEN <<Head(s)>> ELSE <<>>)
         \o SelectChunks(Tail(s), keep)

\* ------------------------------------------------- retrieval/vectorstore.py
\* A VectorStore object: index = the vectors in insertion order (a vector is
\* named by the key of the chunk it embeds), metadata = the chunk list.
VectorStore_new == [index |-> <<>>, metadata |-> <<>>]

VectorStore_add_chunks_prepend(store, chunks) ==
  IF Len(chunks) = 0 THEN store
  ELSE [index |-> store.index \o [i \in 1..Len(chunks) |-> KeyOf(chunks[i])],
        metadata |-> chunks \o store.metadata]

\* add_chunks: the vector of chunks[i] (here: its key) goes to the index, the
\* chunk to the metadata list.
VectorStore_add_chunks(store, chunks) ==
  IF Len(chunks) = 0 THEN store
  ELSE [index |-> store.index \o [i \in 1..Len(chunks) |-> KeyOf(chunks[i])],
        metadata |-> store.metadata \o chunks]

\* load: no index.faiss -> cls(); metadata.json is opened unconditionally.
VectorStore_load_raises(faiss, meta) == faiss.present /\ ~meta.present

VectorStore_load(faiss, meta) ==
  IF ~faiss.present THEN VectorStore_new
  ELSE [index |-> faiss.content, metadata |-> meta.content]

\* save: index.faiss is written first, metadata.json second
VectorStore_save_faiss(store) == File(store.index)
VectorStore_save_meta(store) == File(store.metadata)

VectorStore_count(store) == Len(store.index)

\* search: k = min(top_k, ntotal); the k best positions, any k of them being
\* possible for some query vector; metadata[idx] for each.
VectorStore_hits(store, top_k) ==
  {S \in SUBSET (1..Len(store.index)) :
     Cardinality(S) = Min(top_k, Len(store.index))}

VectorStore_search_raises(store, hits) ==
  \E i \in hits : i > Len(store.metadata)

VectorStore_search(store, hits) ==
  {store.metadata[i] : i \in {j \in hits : j <= Len(store.metadata)}}

\* --------------------------------------------------- retrieval/bm25store.py
_STOPWORDS == {"the"}

\* _tokenize: lower-case, split, drop stopwords (blanks separate tokens)
tokenize(q) == SelectChunks(Lower(q), Range(Lower(q)) \ ({Blank} \cup _STOPWORDS))

\* A BM25Store object: chunks, and _bm25 as the tokenized corpus in order
\* (one entry per chunk, named by the chunk's key); <<>> stands for None.
BM25Store_new == [chunks |-> <<>>, bm25 |-> <<>>]

\* add_chunks putting the new chunks in front of the stored ones
BM25Store_add_chunks_front(store, chunks) ==
  LET all == chunks \o store.chunks IN
  [chunks |-> all, bm25 |-> [i \in 1..Len(all) |-> KeyOf(all[i])]]

\* add_chunks: extend, then _build (None when there is no chunk)
BM25Store_add_chunks(store, chunks) ==
  LET all == store.chunks \o chunks IN
  [chunks |-> all, bm25 |-> [i \in 1..Len(all) |-> KeyOf(all[i])]]

BM25Store_load_raises(pkl, chunksFile) == pkl.present /\ ~chunksFile.present

BM25Store_load(pkl, chunksFile) ==
  IF ~pkl.present THEN BM25Store_new
  ELSE [chunks |-> chunksFile.content, bm25 |-> pkl.content]

\* save: bm25.pkl is written first, bm25_chunks.json second
BM25Store_save_pkl(store) == File(store.bm25)
BM25Store_save_chunks(store) == File(store.chunks)

BM25Store_count(store) == Len(store.chunks)

\* search: zip(self.chunks, scores) stops at the shorter; top_k of them
BM25Store_hits(store, q, top_k) ==
  IF store.bm25 = <<>> \/ store.chunks = <<>> \/ tokenize(q) = <<>> THEN {{}}
  ELSE LET n == Min(Len(store.chunks), Len(store.bm25)) IN
       {S \in SUBSET (1..n) : Cardinality(S) = Min(top_k, n)}

BM25Store_search(store, hits) == {store.chunks[i] : i \in hits}

\* ----------------------------------------------------------- graph/state.py
\* L88State is a dict: keys = the keys it holds; a field whose key is absent
\* keeps the placeholder of StateBlank and is read through Get with a default.
StateBlank ==
  [keys |-> {}, query |-> <<>>, selected_doc_ids |-> {}, web_mode |-> FALSE,
   route |-> "", query_type |-> "", strategy |-> "",
   rewritten_queries |-> <<>>, rewrite_count |-> 0, last_verdict |-> "",
   chunks |-> <<>>, found |-> FALSE, context_verdict |-> "", answer |-> "",
   sources |-> <<>>, missing_info |-> "", verdict |-> "", confident |-> FALSE]

\* state.get(k, default)
Get(s, k, default) == IF k \in s.keys THEN s[k] ELSE default

\* LangGraph merges the dict a node returns into the state (last value wins).
Merge(s, upd) ==
  [f \in DOMAIN s |->
     IF f = "keys" THEN s.keys \cup DOMAIN upd
     ELSE IF f \in DOMAIN upd THEN upd[f] ELSE s[f]]

NO_INFO == "No information found in the selected sources."
NO_SOURCES == "No sources available. Upload documents or enable web mode."

\* chat_service.py run_chat: initial_state (rewritten_queries None = <<>>)
initial_state(query, selected, web_mode) ==
  Merge(StateBlank,
        [query |-> query, selected_doc_ids |-> selected, web_mode |-> web_mode,
         rewrite_count |-> 0, last_verdict |-> "", chunks |-> <<>>,
         found |-> FALSE, rewritten_queries |-> <<>>])

\* ---------------------------------------------------- graph/nodes/router.py
router_node_no_override(s) ==
  LET has_docs == s.selected_doc_ids # {}
      is_summarize == Range(Lower(s.query)) \cap SUMMARIZE_KEYWORDS # {}
  IN IF has_docs /\ is_summarize THEN [route |-> "summarize"]
     ELSE IF has_docs THEN [route |-> "rag"]
     ELSE [route |-> "chat"]

\* router_node answering "error" when there is nothing to search
router_node_no_sources(s) ==
  LET has_docs == s.selected_doc_ids # {}
      query_lower == Lower(s.query)
      is_summarize == \E i \in 1..Len(query_lower) :
                         query_lower[i] \in SUMMARIZE_KEYWORDS
      web_mode == Get(s, "web_mode", FALSE)
  IN IF web_mode THEN [route |-> "rag"]
     ELSE IF has_docs /\ is_summarize THEN [route |-> "summarize"]
     ELSE IF has_docs THEN [route |-> "rag"]
     ELSE [route |-> "error"]

router_node(s) ==
  LET has_docs == s.selected_doc_ids # {}
      query_lower == Lower(s.query)
      is_summarize == \E i \in 1..Len(query_lower) :
                         query_lower[i] \in SUMMARIZE_KEYWORDS
      web_mode == Get(s, "web_mode", FALSE)
  IN IF web_mode THEN [route |-> "rag"]
     ELSE IF has_docs /\ is_summarize THEN [route |-> "summarize"]
     ELSE IF has_docs THEN [route |-> "rag"]
     ELSE [route |-> "chat"]

\* -------------------------------------------- graph/nodes/query_analyzer.py
QUERY_TYPES == {"simple", "multi_hop", "math", "comparison"}
STRATEGIES == {"single", "decompose", "step_back"}

\* What the LLM answers: unparsable text, or JSON with these values.
AnalyzerResponses ==
  [parsed : BOOLEAN, query_type : {"simple", "multi_hop", "bogus"},
   strategy : {"single", "bogus"}]

query_analyzer_node(s, resp) ==
  LET qt0 == IF resp.parsed THEN resp.query_type ELSE "simple"
      st0 == IF resp.parsed THEN resp.strategy ELSE "single"
  IN [query_type |-> IF qt0 \notin QUERY_TYPES THEN "simple" ELSE qt0,
      strategy |-> IF st0 \notin STRATEGIES THEN "single" ELSE st0]

\* -------------------------------------------- graph/nodes/query_rewriter.py
\* The "rewritten_queries" value of the LLM's JSON: a list of queries, or a
\* value that is no list, given by its str().
ListOf(items) == [list |-> TRUE, items |-> items]
NonList(str) == [list |-> FALSE, str |-> str]

\* Query lists the LLM may return in a run (before the [:3] cut).
RewriterQueryLists == { <<>>, << <<"what">> >> }

RewriterResponses ==
  [parsed : BOOLEAN, query_type : {"simple", "multi_hop", "bogus"},
   strategy : {"single"},
   rewritten_queries : {ListOf(l) : l \in RewriterQueryLists}]

\* query_rewriter_node counting only the rewrites that follow a verdict
query_rewriter_node_retry_only(s, resp) ==
  LET current_count == Get(s, "rewrite_count", 0)
      qt0 == IF resp.parsed THEN resp.query_type
             ELSE Get(s, "query_type", "simple")
      st0 == IF resp.parsed THEN resp.strategy ELSE "single"
      q0 == IF resp.parsed THEN resp.rewritten_queries ELSE ListOf(<< s.query >>)
      ql == IF q0.list THEN q0.items ELSE << q0.str >>
      q1 == SubSeq(ql, 1, Min(3, Len(ql)))
      original == s.query
      q2 == IF original \notin Range(q1)
              THEN << original >> \o SubSeq(q1, 1, Min(2, Len(q1)))
              ELSE q1
  IN [query_type |-> IF qt0 \notin QUERY_TYPES THEN "simple" ELSE qt0,
      strategy |-> st0,
      rewritten_queries |-> q2,
      rewrite_count |-> IF (current_count > 0 \/ Get(s, "last_verdict", "") # "")
                          THEN current_count + 1 ELSE current_count]

\* query_rewriter_node adding the original query behind the LLM's queries
query_rewriter_node_append(s, resp) ==
  LET current_count == Get(s, "rewrite_count", 0)
      qt0 == IF resp.parsed THEN resp.query_type
             ELSE Get(s, "query_type", "simple")
      st0 == IF resp.parsed THEN resp.strategy ELSE "single"
      q0 == IF resp.parsed THEN resp.rewritten_queries ELSE ListOf(<< s.query >>)
      ql == IF q0.list THEN q0.items ELSE << q0.str >>
      q1 == SubSeq(ql, 1, Min(3, Len(ql)))
      original == s.query
      q2 == IF original \notin Range(q1) THEN q1 \o << original >> ELSE q1
  IN [query_type |-> IF qt0 \notin QUERY_TYPES THEN "simple" ELSE qt0,
      strategy |-> st0,
      rewritten_queries |-> q2,
      rewrite_count |-> current_count + 1]

query_rewriter_node(s, resp) ==
  LET current_count == Get(s, "rewrite_count", 0)
      qt0 == IF resp.parsed THEN resp.query_type
             ELSE Get(s, "query_type", "simple")
      st0 == IF resp.parsed THEN resp.strategy ELSE "single"
      q0 == IF resp.parsed THEN resp.rewritten_queries ELSE ListOf(<< s.query >>)
      ql == IF q0.list THEN q0.items ELSE << q0.str >>
      q1 == SubSeq(ql, 1, Min(3, Len(ql)))
      original == s.query
      q2 == IF original \notin Range(q1)
              THEN << original >> \o SubSeq(q1, 1, Min(2, Len(q1)))
              ELSE q1
  IN [query_type |-> IF qt0 \notin QUERY_TYPES THEN "simple" ELSE qt0,
      strategy |-> st0,
      rewritten_queries |-> q2,
      rewrite_count |-> current_count + 1]

\* ------------------------------------------------- graph/nodes/generator.py
\* The context_verdict text of the LLM's JSON, and its validation.
RawContextVerdicts == {"SUFFICIENT", "GAP", "EMPTY", "a gap", "other"}

validate_context_verdict(v) ==
  IF v \in {"SUFFICIENT", "GAP", "EMPTY"} THEN v
  ELSE IF v = "a gap" THEN "GAP"
  ELSE "SUFFICIENT"

GeneratorResponses ==
  [parsed : BOOLEAN, context_verdict : RawContextVerdicts]

generator_node(s, resp) ==
  LET route == Get(s, "route", "rag")
      found == Get(s, "found", FALSE)
  IN IF route = "chat"
       THEN [context_verdict |-> "SUFFICIENT", answer |-> "llm text",
             sources |-> <<>>, missing_info |-> "",
             last_verdict |-> "SUFFICIENT"]
     ELSE IF ~found
       THEN [context_verdict |-> "EMPTY", answer |-> NO_INFO,
             sources |-> <<>>, missing_info |-> "No relevant chunks retrieved.",
             last_verdict |-> "EMPTY"]
     ELSE LET cv == IF resp.parsed
                      THEN validate_context_verdict(resp.context_verdict)
                      ELSE "SUFFICIENT"
          IN [context_verdict |-> cv, answer |-> "llm text",
              sources |-> IF resp.parsed THEN << "llm source" >> ELSE <<>>,
              missing_info |-> IF resp.parsed /\ cv = "GAP"
                                 THEN "llm missing" ELSE "",
              last_verdict |-> cv]

\* The generator calls the LLM on the chat route and when chunks were found.
generator_calls_llm(s) ==
  Get(s, "route", "rag") = "chat" \/ Get(s, "found", FALSE)

\* The LLM's JSON is parsed only on the rag route with chunks found; the other
\* branches return before reading it.
generator_inputs(s) ==
  IF Get(s, "route", "rag") # "chat" /\ Get(s, "found", FALSE)
    THEN GeneratorResponses
    ELSE {[parsed |-> FALSE, context_verdict |-> "other"]}

\* -------------------------------------------- graph/nodes/self_evaluator.py
\* The LLM's reply, as the set of verdict words its upper-cased text contains.
SelfEvalResponses == SUBSET {"GOOD", "UNSURE", "BAD"}

self_evaluator_node_not_bad(s, resp) ==
  LET verdict == IF "GOOD" \in resp THEN "GOOD"
                 ELSE IF "UNSURE" \in resp THEN "UNSURE"
                 ELSE IF "BAD" \in resp THEN "BAD"
                 ELSE "UNSURE"
  IN [verdict |-> verdict, confident |-> (verdict # "BAD"),
      last_verdict |-> verdict]

self_evaluator_node(s, resp) ==
  LET verdict == IF "GOOD" \in resp THEN "GOOD"
                 ELSE IF "UNSURE" \in resp THEN "UNSURE"
                 ELSE IF "BAD" \in resp THEN "BAD"
                 ELSE "UNSURE"
  IN [verdict |-> verdict, confident |-> (verdict = "GOOD"),
      last_verdict |-> verdict]

\* ------------------------------------------------------------ graph/graph.py
not_found_node(s) ==
  [answer |-> NO_INFO, confident |-> FALSE, context_verdict |-> "EMPTY",
   missing_info |-> "All retrieval attempts returned no relevant results."]

error_node(s) ==
  [answer |-> NO_SOURCES, confident |-> FALSE, context_verdict |-> "EMPTY"]

\* ------------------------------------------------------------ graph/edges.py
route_after_router(s) == s.route

\* route_after_generator sending every exhausted run to the self-evaluator
route_after_generator_no_not_found(s) ==
  IF Get(s, "query_type", "") = "simple"
       /\ Get(s, "context_verdict", "") = "SUFFICIENT"
    THEN "output"
  ELSE LET verdict == Get(s, "context_verdict", "SUFFICIENT")
           rewrite_count == Get(s, "rewrite_count", 0)
       IN IF verdict = "SUFFICIENT" THEN "self_evaluator"
          ELSE IF rewrite_count < MAX_REWRITES THEN "query_rewriter"
          ELSE "self_evaluator"

\* route_after_generator retrying while rewrite_count <= MAX_REWRITES
route_after_generator_le(s) ==
  IF Get(s, "query_type", "") = "simple"
       /\ Get(s, "context_verdict", "") = "SUFFICIENT"
    THEN "output"
  ELSE LET verdict == Get(s, "context_verdict", "SUFFICIENT")
           rewrite_count == Get(s, "rewrite_count", 0)
       IN IF verdict = "SUFFICIENT" THEN "self_evaluator"
          ELSE IF rewrite_count <= MAX_REWRITES THEN "query_rewriter"
          ELSE IF verdict = "EMPTY" THEN "not_found"
          ELSE "self_evaluator"

route_after_generator(s) ==
  IF Get(s, "query_type", "") = "simple"
       /\ Get(s, "context_verdict", "") = "SUFFICIENT"
    THEN "output"
  ELSE LET verdict == Get(s, "context_verdict", "SUFFICIENT")
           rewrite_count == Get(s, "rewrite_count", 0)
       IN IF verdict = "SUFFICIENT" THEN "self_evaluator"
          ELSE IF rewrite_count < MAX_REWRITES THEN "query_rewriter"
          ELSE IF verdict = "EMPTY" THEN "not_found"
          ELSE "self_evaluator"

\* route_after_self_eval giving up one rewrite early
route_after_self_eval_early(s) ==
  LET verdict == Get(s, "verdict", "GOOD")
      rewrite_count == Get(s, "rewrite_count", 0)
  IN IF verdict = "GOOD" THEN "output"
     ELSE IF rewrite_count + 1 < MAX_REWRITES THEN "query_rewriter"
     ELSE "output"

route_after_self_eval(s) ==
  LET verdict == Get(s, "verdict", "GOOD")
      rewrite_count == Get(s, "rewrite_count", 0)
  IN IF verdict = "GOOD" THEN "output"
     ELSE IF rewrite_count < MAX_REWRITES THEN "query_rewriter"
     ELSE "output"

\* edges.py holds no route_after_analyzer although graph.py imports it; its
\* caller maps the results "retrieval" and "query_rewriter" and documents
\* "simple -> retrieval, complex -> query_rewriter".
route_after_analyzer(s) ==
  IF Get(s, "query_type", "simple") = "simple" THEN "retrieval"
  ELSE "query_rewriter"

\* graph.py build_graph: the path maps of the conditional edges.  A result
\* that is no key of the map makes the graph raise (KeyError).
RouterEnds == [rag |-> "query_analyzer", chat |-> "generator", error |-> "error"]
AnalyzerEnds == [retrieval |-> "retrieval", query_rewriter |-> "query_rewriter"]
GeneratorEnds ==
  [self_evaluator |-> "self_evaluator", query_rewriter |-> "query_rewriter",
   not_found |-> "not_found"]
SelfEvalEnds == [output |-> "output", query_rewriter |-> "query_rewriter"]

Follow(ends, r) == IF r \in DOMAIN ends THEN ends[r] ELSE "raised"

\* ------------------------------------------------- graph/nodes/retrieval.py
\* The shared library index (storage/library/index): index.faiss with its
\* aligned metadata.json, or no index.
LibraryStore(lib) ==
  [index |-> [i \in 1..Len(lib.content) |-> KeyOf(lib.content[i])],
   metadata |-> lib.content]

\* One chunk per key of `keys`, taken from `first` when it has the key and
\* from `second` otherwise (chunk = dict(faiss_chunk or bm25_chunk)).
ChunksForKeys(keys, first, second) ==
  LET ks == SeqOfSet(keys)
      pick(k) == IF \E c \in first : KeyOf(c) = k
                   THEN CHOOSE c \in first : KeyOf(c) = k
                   ELSE CHOOSE c \in second : KeyOf(c) = k
  IN [i \in 1..Len(ks) |-> pick(ks[i])]

\* The body of `for q in queries` for one query and one choice of hits.
gather_step(acc, fr, br) ==
  LET all_keys == {KeyOf(c) : c \in fr \cup br}
      fresh == all_keys \ acc.seen
  IN [raised |-> FALSE, seen |-> acc.seen \cup fresh,
      all_chunks |-> acc.all_chunks \o ChunksForKeys(fresh, fr, br)]

gather_one_also_session(acc, q, sstore, bstore, lib, web_mode) ==
  IF web_mode /\ sstore.index = <<>>
    THEN IF lib.present /\ VectorStore_count(LibraryStore(lib)) > 0
           THEN {gather_step(acc, VectorStore_search(LibraryStore(lib), h), {}) :
                   h \in VectorStore_hits(LibraryStore(lib), RETRIEVE_TOP_K)}
           ELSE {acc}
    ELSE {IF VectorStore_search_raises(sstore, dh)
            THEN [acc EXCEPT !.raised = TRUE]
            ELSE gather_step(acc, VectorStore_search(sstore, dh),
                             BM25Store_search(bstore, bh)) :
            dh \in (IF VectorStore_count(sstore) > 0
                      THEN VectorStore_hits(sstore, RETRIEVE_TOP_K) ELSE {{}}),
            bh \in (IF BM25Store_count(bstore) > 0
                      THEN BM25Store_hits(bstore, q, RETRIEVE_TOP_K) ELSE {{}})}

gather_one(acc, q, sstore, bstore, lib, web_mode) ==
  IF web_mode
    THEN IF lib.present /\ VectorStore_count(LibraryStore(lib)) > 0
           THEN {gather_step(acc, VectorStore_search(LibraryStore(lib), h), {}) :
                   h \in VectorStore_hits(LibraryStore(lib), RETRIEVE_TOP_K)}
           ELSE {acc}
    ELSE {IF VectorStore_search_raises(sstore, dh)
            THEN [acc EXCEPT !.raised = TRUE]
            ELSE gather_step(acc, VectorStore_search(sstore, dh),
                             BM25Store_search(bstore, bh)) :
            dh \in (IF VectorStore_count(sstore) > 0
                      THEN VectorStore_hits(sstore, RETRIEVE_TOP_K) ELSE {{}}),
            bh \in (IF BM25Store_count(bstore) > 0
                      THEN BM25Store_hits(bstore, q, RETRIEVE_TOP_K) ELSE {{}})}

RECURSIVE gather(_, _, _, _, _, _)
gather(acc, queries, sstore, bstore, lib, web_mode) ==
  IF queries = <<>> \/ acc.raised THEN {acc}
  ELSE UNION {gather(a, Tail(queries), sstore, bstore, lib, web_mode) :
                a \in gather_one(acc, Head(queries), sstore, bstore, lib, web_mode)}

\* Filter by selected doc IDs (library chunks always kept; no filter at all
\* when nothing is selected).
filter_selected(all_chunks, selected_doc_ids) ==
  IF selected_doc_ids # {}
    THEN SelectChunks(all_chunks,
           {c \in Range(all_chunks) :
              c.source = "library" \/ c.doc_id \in selected_doc_ids})
    ELSE all_chunks

\* reranker.py rerank returns the list ranked[:top_n] and nothing else.
rerank_len(n, top_n) == Min(n, top_n)

\* `all_chunks, top_score = rerank(...)`: unpacking a list into two names
\* raises ValueError unless it has exactly two items; with two items top_score
\* is a chunk dict and `top_score >= 0.7` raises TypeError.
rerank_unpack_raises(n) ==
  LET m == rerank_len(n, RERANK_TOP_N) IN m # 2 \/ m = 2

\* retrieval_node: every outcome the node can have on the given index files.
\* candidates = all_chunks after the filter, before reranking.
retrieval_node(s, faiss, meta, pkl, bchunks, lib) ==
  IF VectorStore_load_raises(faiss, meta) \/ BM25Store_load_raises(pkl, bchunks)
    THEN {[raised |-> TRUE, candidates |-> <<>>, chunks |-> <<>>]}
  ELSE
    LET queries == IF Get(s, "rewritten_queries", <<>>) # <<>>
                     THEN s.rewritten_queries ELSE << s.query >>
        accs == gather([raised |-> FALSE, seen |-> {}, all_chunks |-> <<>>],
                       queries, VectorStore_load(faiss, meta),
                       BM25Store_load(pkl, bchunks), lib,
                       Get(s, "web_mode", FALSE))
    IN {LET filtered == filter_selected(a.all_chunks,
                                        Get(s, "selected_doc_ids", {}))
        IN IF a.raised
             THEN [raised |-> TRUE, candidates |-> <<>>, chunks |-> <<>>]
           ELSE IF filtered # <<>> /\ rerank_unpack_raises(Len(filtered))
             THEN [raised |-> TRUE, candidates |-> filtered, chunks |-> <<>>]
           ELSE [raised |-> FALSE, candidates |-> filtered,
                 chunks |-> filtered] : a \in accs}

retrieval_update_found(out) ==
  [chunks |-> out.chunks, found |-> TRUE, confident |-> FALSE]

\* The dict retrieval_node returns when it does not raise (without a rerank
\* the confidence stays False).
retrieval_update(out) ==
  [chunks |-> out.chunks, found |-> Len(out.chunks) > 0, confident |-> FALSE]

\* ------------------------------------------ services/document_service.py
EmptyIndexDir == [faiss |-> NoFile, meta |-> NoFile, pkl |-> NoFile,
                  bchunks |-> NoFile]

\* The file names of uploads: stem and extension; no file name at all is the
\* empty name.
UploadFiles ==
  {[stem |-> "a", ext |-> ".pdf"], [stem |-> "a", ext |-> ".PDF"],
   [stem |-> "a", ext |-> ".txt"], [stem |-> "", ext |-> ""]}

\* str.lower on the extensions.
ExtLower == [e \in {".pdf", ".PDF", ".txt", ""} |->
               IF e = ".PDF" THEN ".pdf" ELSE e]

ingest_rejects_no_name_only(file) == file.stem = "" /\ file.ext = ""

\* ingest_document, "Validate": not filename or not
\* filename.lower().endswith(".pdf").
ingest_rejects(file) ==
  \/ (file.stem = "" /\ file.ext = "")
  \/ ExtLower[file.ext] # ".pdf"

\* ingest_document, "FAISS store" and "BM25 store" steps: load, add, save.
ingest_dense(idx, chunks) ==
  LET store == VectorStore_load(idx.faiss, idx.meta)
      added == IF chunks # <<>> THEN VectorStore_add_chunks(store, chunks)
               ELSE store
  IN [idx EXCEPT !.faiss = VectorStore_save_faiss(added),
                 !.meta = VectorStore_save_meta(added)]

ingest_sparse(idx, chunks) ==
  LET store == BM25Store_add_chunks(BM25Store_load(idx.pkl, idx.bchunks), chunks)
  IN [idx EXCEPT !.pkl = BM25Store_save_pkl(store),
                 !.bchunks = BM25Store_save_chunks(store)]

ingest_index(idx, chunks) == ingest_sparse(ingest_dense(idx, chunks), chunks)

ingest_raises(idx) ==
  \/ VectorStore_load_raises(idx.faiss, idx.meta)
  \/ BM25Store_load_raises(idx.pkl, idx.bchunks)

\* get_selected_doc_ids
get_selected_doc_ids(docs) == {d.id : d \in {x \in docs : x.selected}}

\* _rebuild_session_index: fresh stores filled from the PDFs of the documents
\* that still have a record (in id order), then saved.
RECURSIVE rebuild_stores(_, _, _)
rebuild_stores(ids, pdfFiles, stores) ==
  IF ids = {} THEN stores
  ELSE LET d == CHOOSE x \in ids : \A y \in ids : x <= y
           has_pdf == \E f \in pdfFiles : f.id = d
           chunks == IF has_pdf
                       THEN ChunksOf(d, (CHOOSE f \in pdfFiles : f.id = d).n)
                       ELSE <<>>
           next == IF chunks # <<>>
                     THEN [dense |-> VectorStore_add_chunks(stores.dense, chunks),
                           sparse |-> BM25Store_add_chunks(stores.sparse, chunks)]
                     ELSE stores
       IN rebuild_stores(ids \ {d}, pdfFiles, next)

rebuild_session_index(docs, pdfFiles) ==
  LET stores == rebuild_stores({d.id : d \in docs}, pdfFiles,
                               [dense |-> VectorStore_new, sparse |-> BM25Store_new])
  IN [faiss |-> VectorStore_save_faiss(stores.dense),
      meta |-> VectorStore_save_meta(stores.dense),
      pkl |-> BM25Store_save_pkl(stores.sparse),
      bchunks |-> BM25Store_save_chunks(stores.sparse)]

\* session_service.py update_session_type
update_session_type_sticky(docs) == "rag"

update_session_type(docs) == IF Cardinality(docs) > 0 THEN "rag" ELSE "general"

\* ------------------------------------------------------------------ cache.py
\* The response payload run_chat returns and caches; is_none marks None.
NoneResult ==
  [is_none |-> TRUE, message_id |-> 0, answer |-> "", sources |-> <<>>,
   confident |-> FALSE, context_verdict |-> "", verdict |-> "",
   missing_info |-> ""]

\* _cache maps a key to {"result": ..., "ts": ...}; present = the key is held.
NoEntry == [present |-> FALSE, result |-> NoneResult, ts |-> 0]

EmptyCache == [k \in CacheKeys |-> NoEntry]

\* cache_get: the value returned, and the cache it leaves (an expired entry
\* is deleted).
cache_get_expired(c, session_id, query, t) ==
  LET entry == c[make_key(session_id, query)]
  IN entry.present /\ t - entry.ts > TTL_SECONDS

\* cache_get treating an entry of age exactly TTL_SECONDS as expired
cache_get_ge(c, session_id, query, t) ==
  LET entry == c[make_key(session_id, query)]
  IN IF ~entry.present THEN NoneResult
     ELSE IF t - entry.ts >= TTL_SECONDS THEN NoneResult
     ELSE entry.result

cache_get(c, session_id, query, t) ==
  LET entry == c[make_key(session_id, query)]
  IN IF ~entry.present THEN NoneResult
     ELSE IF t - entry.ts > TTL_SECONDS THEN NoneResult
     ELSE entry.result

cache_after_get(c, session_id, query, t) ==
  IF cache_get_expired(c, session_id, query, t)
    THEN [c EXCEPT ![make_key(session_id, query)] = NoEntry]
    ELSE c

\* cache_set keeping the result of the entry it overwrites
cache_set_keep_result(c, session_id, query, result, t) ==
  [c EXCEPT ![make_key(session_id, query)] =
     [present |-> TRUE, result |-> IF @.present THEN @.result ELSE result,
      ts |-> t]]

cache_set(c, session_id, query, result, t) ==
  [c EXCEPT ![make_key(session_id, query)] =
     [present |-> TRUE, result |-> result, ts |-> t]]

\* _cache[k].get("session_id"): cache_set stores only "result" and "ts", so
\* the lookup yields None for every entry.
entry_session_id(entry) == "None"

cache_invalidate_session(c, session_id) ==
  [k \in DOMAIN c |->
     IF c[k].present /\ entry_session_id(c[k]) = session_id THEN NoEntry
     ELSE c[k]]

\* ------------------------------------------------------------------- state
VARIABLES
  documents,   \* Document rows of session sid: [id, selected, chunk_count]
  pdfs,        \* sessions/<sid>/docs: [id, n], n = chunks the file yields
  index,       \* sessions/<sid>/index: the four index files
  library,     \* library/index: the library chunk list, or no index
  sessionType, \* Session.session_type of sid
  webMode,     \* Session.web_mode of sid
  nextDoc,     \* number of doc ids handed out so far
  cache,       \* cache.py _cache
  now,         \* time.time()
  ticks,       \* clock advances so far
  pc,          \* run_chat: "idle", the graph node about to run, "END", "raised"
  st,          \* the graph state of the current (or last) run
  runs,        \* run_chat calls started
  response,    \* outcome of the last run_chat call
  hist,        \* per-run record: node executions, LLM calls, terminal node
  retrieved,   \* chunks the last retrieval gathered (after the filter)
  lastGet,     \* the last direct cache_get call: its key, time and result
  stored,      \* history: per key, the last direct cache_set (result, ts)
  sets,        \* history: direct cache_set calls so far
  deleted,     \* history: ids of the documents delete_document removed
  wr,          \* SpecConc: the writer threads (ingest_document / delete_document)
  rd,          \* SpecConc: the reader thread (retrieval_node loading the index)
  fu,          \* SpecFuse: retrieval_node's query loop (seen, all_chunks, scores)
  upload,      \* the last ingest_document call: its file name and its outcome
  cg           \* SpecGet: the threads inside cache_get (key, entry read, step)

vars == <<documents, pdfs, index, library, sessionType, webMode, nextDoc,
          cache, now, ticks, pc, st, runs, response, hist, retrieved, lastGet,
          stored, sets, deleted, wr, rd, fu, upload, cg>>

envVars == <<documents, pdfs, index, library, sessionType, webMode, nextDoc>>
clockVars == <<now, ticks>>
runVars == <<pc, st, runs, response, hist>>
histVars == <<sets, deleted>>
concVars == <<wr, rd, fu, upload, cg>>

NoHist == [query |-> <<>>, nGen |-> 0, nRetr |-> 0, nRewr |-> 0, nEval |-> 0,
           nLLM |-> 0, allEmpty |-> TRUE, terminal |-> "none", hit |-> FALSE,
           graph |-> FALSE]

\* What a run_chat call gave its caller: kind "returned" with the payload, or
\* "raised"; query and at record the call's query and the time the payload
\* was stored in the cache.
NoResponse == [kind |-> "none", body |-> NoneResult, query |-> <<>>, at |-> 0]

NoGet == [called |-> FALSE, key |-> <<"", <<>>>>, at |-> 0, result |-> NoneResult]

\* SpecConc threads: two request handlers that write the index (each runs one
\* ingest_document or delete_document) and one that runs retrieval_node.
Writers == {"w1", "w2"}

\* A writer: the step it is at, its call, its document and chunks, the stores
\* it holds in memory, and (history) the index directory as its call found it.
IdleWriter ==
  [pc |-> "idle", op |-> "none", doc |-> 0, chunks |-> <<>>,
   dense |-> VectorStore_new, sparse |-> BM25Store_new, pre |-> EmptyIndexDir]

\* The reader: the stores it loaded; (history) after = the writers whose call
\* had returned when it began.
IdleReader ==
  [pc |-> "idle", dense |-> VectorStore_new, sparse |-> BM25Store_new,
   after |-> {}]

\* SpecGet threads: two request handlers inside cache_get.
Getters == {"t1", "t2"}

\* A cache_get call: the step it is at, its key, the entry `_cache.get(key)`
\* gave it, and what it returned.
IdleGetter == [pc |-> "idle", key |-> <<>>, entry |-> NoEntry,
               result |-> NoneResult]

\* No ingest_document call yet.
NoUpload == [filename |-> [stem |-> "", ext |-> ""], outcome |-> "none"]

\* retrieval_node before its query loop: seen = set(), all_chunks = [].
NoFusion == [pc |-> "idle", query_type |-> "simple", n |-> 0, seen |-> {},
             all_chunks |-> <<>>, again |-> FALSE]

TERMINAL_NODES == {"output", "not_found", "error"}

\* Sessions as sequential ingests leave them: k documents with n[i] chunks
\* (a PDF without text yields no chunk).
RECURSIVE IngestAll(_, _)
IngestAll(k, n) ==
  IF k = 0 THEN EmptyIndexDir
  ELSE ingest_index(IngestAll(k - 1, n), ChunksOf(k, n[k]))

InitEnv ==
  \E k \in 0..MaxInitDocs :
    \E n \in [1..k -> {0, MaxChunks}], sel \in [1..k -> BOOLEAN] :
      /\ documents = {[id |-> i, selected |-> sel[i], chunk_count |-> n[i]] :
                        i \in 1..k}
      /\ pdfs = {[id |-> i, n |-> n[i]] : i \in 1..k}
      /\ index = IngestAll(k, n)
      /\ sessionType = update_session_type(documents)
      /\ nextDoc = k

InitRest ==
  /\ cache = EmptyCache
  /\ now = 0
  /\ ticks = 0
  /\ pc = "idle"
  /\ st = StateBlank
  /\ runs = 0
  /\ response = NoResponse
  /\ hist = NoHist
  /\ retrieved = <<>>
  /\ lastGet = NoGet
  /\ stored = EmptyCache
  /\ sets = 0
  /\ deleted = {}
  /\ wr = [w \in Writers |-> IdleWriter]
  /\ rd = IdleReader
  /\ fu = NoFusion
  /\ upload = NoUpload
  /\ cg = [t \in Getters |-> IdleGetter]

Init ==
  /\ InitEnv
  /\ library \in {NoFile, File(LibChunks(MaxLibChunks))}
  /\ webMode \in BOOLEAN
  /\ InitRest

\* ------------------------------------------------------------------- clock
TickSteps == {1, TTL_SECONDS}

Tick ==
  /\ pc = "idle"
  /\ ticks < MaxTicks
  /\ \E d \in TickSteps : now' = now + d
  /\ ticks' = ticks + 1
  /\ UNCHANGED <<envVars, cache, stored, runVars, retrieved, lastGet, histVars, concVars>>

\* ------------------------------------------- services/chat_service.py
\* run_chat up to the cache probe: a hit returns the cached payload, a miss
\* enters the graph at the router.
RunChatBegin ==
  /\ pc = "idle"
  /\ runs < MaxRuns
  /\ \E query \in Queries :
       LET selected_doc_ids == get_selected_doc_ids(documents)
           cached == cache_get(cache, sid, query, now)
       IN /\ cache' = cache_after_get(cache, sid, query, now)
          /\ IF ~cached.is_none
               THEN /\ response' = [kind |-> "returned", body |-> cached,
                                    query |-> query,
                                    at |-> cache[make_key(sid, query)].ts]
                    /\ pc' = "idle"
                    /\ hist' = [NoHist EXCEPT !.hit = TRUE, !.query = query]
                    /\ st' = StateBlank
               ELSE /\ response' = NoResponse
                    /\ pc' = "router"
                    /\ hist' = [NoHist EXCEPT !.graph = TRUE, !.query = query]
                    /\ st' = initial_state(query, selected_doc_ids, webMode)
  /\ runs' = runs + 1
  /\ retrieved' = <<>>
  /\ UNCHANGED <<envVars, clockVars, stored, lastGet, histVars, concVars>>

\* The response run_chat builds from the final graph state.
build_response(result, message_id) ==
  [is_none |-> FALSE, message_id |-> message_id,
   answer |-> Get(result, "answer", ""),
   sources |-> Get(result, "sources", <<>>),
   confident |-> Get(result, "confident", TRUE),
   context_verdict |-> Get(result, "context_verdict", ""),
   verdict |-> Get(result, "verdict", ""),
   missing_info |-> Get(result, "missing_info", "")]

\* run_chat after _graph.invoke returned: build the response, cache it; the
\* graph state is a local of the call and is gone when it returns.
RunChatReturn ==
  /\ pc = "END"
  /\ LET resp == build_response(st, runs)
     IN /\ response' = [kind |-> "returned", body |-> resp,
                         query |-> st.query, at |-> now]
        /\ cache' = cache_set(cache, sid, st.query, resp, now)
  /\ pc' = "idle"
  /\ st' = StateBlank
  /\ hist' = NoHist
  /\ retrieved' = <<>>
  /\ UNCHANGED <<envVars, clockVars, runs, lastGet, stored, histVars, concVars>>

\* An exception raised inside the graph leaves run_chat: nothing is cached,
\* no response is built.
RunChatRaise ==
  /\ pc = "raised"
  /\ response' = [NoResponse EXCEPT !.kind = "raised"]
  /\ pc' = "idle"
  /\ st' = StateBlank
  /\ hist' = NoHist
  /\ retrieved' = <<>>
  /\ UNCHANGED <<envVars, cache, stored, clockVars, runs, lastGet, histVars, concVars>>

\* ------------------------------------------------- graph.py: the graph run
RouterNode ==
  /\ pc = "router"
  /\ st' = Merge(st, router_node(st))
  /\ pc' = Follow(RouterEnds, route_after_router(st'))
  /\ UNCHANGED <<envVars, cache, stored, clockVars, runs, response, hist, retrieved,
               lastGet, histVars, concVars>>

AnalyzerNode ==
  /\ pc = "query_analyzer"
  /\ \E resp \in AnalyzerResponses : st' = Merge(st, query_analyzer_node(st, resp))
  /\ pc' = Follow(AnalyzerEnds, route_after_analyzer(st'))
  /\ hist' = [hist EXCEPT !.nLLM = @ + 1]
  /\ UNCHANGED <<envVars, cache, stored, clockVars, runs, response, retrieved, lastGet,
               histVars, concVars>>

RewriterNode ==
  /\ pc = "query_rewriter"
  /\ \E resp \in RewriterResponses : st' = Merge(st, query_rewriter_node(st, resp))
  /\ pc' = "retrieval"
  /\ hist' = [hist EXCEPT !.nLLM = @ + 1, !.nRewr = @ + 1]
  /\ UNCHANGED <<envVars, cache, stored, clockVars, runs, response, retrieved, lastGet,
               histVars, concVars>>

RetrievalNode ==
  /\ pc = "retrieval"
  /\ \E out \in retrieval_node(st, index.faiss, index.meta, index.pkl,
                               index.bchunks, library) :
       /\ retrieved' = out.candidates
       /\ IF out.raised
            THEN pc' = "raised" /\ st' = st
            ELSE pc' = "generator" /\ st' = Merge(st, retrieval_update(out))
  /\ hist' = [hist EXCEPT !.nRetr = @ + 1]
  /\ UNCHANGED <<envVars, cache, stored, clockVars, runs, response, lastGet, histVars,
               concVars>>

GeneratorNode ==
  /\ pc = "generator"
  /\ \E resp \in generator_inputs(st) : st' = Merge(st, generator_node(st, resp))
  /\ pc' = Follow(GeneratorEnds, route_after_generator(st'))
  /\ hist' = [hist EXCEPT !.nGen = @ + 1,
                          !.nLLM = IF generator_calls_llm(st) THEN @ + 1 ELSE @,
                          !.allEmpty = @ /\ st'.context_verdict = "EMPTY"]
  /\ UNCHANGED <<envVars, cache, stored, clockVars, runs, response, retrieved, lastGet,
               histVars, concVars>>

SelfEvalNode ==
  /\ pc = "self_evaluator"
  /\ \E resp \in SelfEvalResponses : st' = Merge(st, self_evaluator_node(st, resp))
  /\ pc' = Follow(SelfEvalEnds, route_after_self_eval(st'))
  /\ hist' = [hist EXCEPT !.nLLM = @ + 1, !.nEval = @ + 1]
  /\ UNCHANGED <<envVars, cache, stored, clockVars, runs, response, retrieved, lastGet,
               histVars, concVars>>

terminal_node(node, s) ==
  IF node = "not_found" THEN Merge(s, not_found_node(s))
  ELSE IF node = "error" THEN Merge(s, error_node(s))
  ELSE s

\* not_found, error and output, each wired to END.
TerminalNode ==
  /\ pc \in TERMINAL_NODES
  /\ st' = terminal_node(pc, st)
  /\ hist' = [hist EXCEPT !.terminal = pc]
  /\ pc' = "END"
  /\ UNCHANGED <<envVars, cache, stored, clockVars, runs, response, retrieved, lastGet,
               histVars, concVars>>

Next ==
  \/ Tick
  \/ RunChatBegin
  \/ RouterNode
  \/ AnalyzerNode
  \/ RewriterNode
  \/ RetrievalNode
  \/ GeneratorNode
  \/ SelfEvalNode
  \/ TerminalNode
  \/ RunChatReturn
  \/ RunChatRaise

Spec == Init /\ [][Next]_vars

\* ============================================ SpecCache: cache.py called directly
\* The payload of the n-th cache_set call (every response has its own id).
CachePayload(n) ==
  [NoneResult EXCEPT !.is_none = FALSE, !.message_id = n, !.answer = "llm text"]

InitFixedEnv ==
  /\ documents = {}
  /\ pdfs = {}
  /\ index = EmptyIndexDir
  /\ sessionType = "general"
  /\ nextDoc = 0
  /\ webMode = FALSE
  /\ library = File(LibChunks(MaxLibChunks))

InitCache == InitFixedEnv /\ InitRest

CacheSet ==
  /\ sets < MaxSets
  /\ \E s \in SessionIds, q \in Queries :
       /\ cache' = cache_set(cache, s, q, CachePayload(sets + 1), now)
       /\ stored' = [stored EXCEPT ![make_key(s, q)] =
                       [present |-> TRUE, result |-> CachePayload(sets + 1),
                        ts |-> now]]
  /\ sets' = sets + 1
  /\ UNCHANGED <<envVars, clockVars, runVars, retrieved, lastGet, deleted, concVars>>

CacheGet ==
  /\ \E s \in SessionIds, q \in Queries :
       /\ lastGet' = [called |-> TRUE, key |-> make_key(s, q), at |-> now,
                      result |-> cache_get(cache, s, q, now)]
       /\ cache' = cache_after_get(cache, s, q, now)
  /\ UNCHANGED <<envVars, clockVars, runVars, retrieved, stored, histVars, concVars>>

NextCache == Tick \/ CacheSet \/ CacheGet

SpecCache == InitCache /\ [][NextCache]_vars

\* ================================= SpecStore: completed document_service calls
InitStore == InitFixedEnv /\ InitRest

\* ingest_document of a PDF that yields n chunks.
IngestDocument ==
  \E file \in UploadFiles :
    IF ingest_rejects(file)
      THEN /\ upload' = [filename |-> file, outcome |-> "rejected"]
           /\ UNCHANGED <<envVars, cache, clockVars, runVars, retrieved, lastGet,
                          stored, histVars, wr, rd, fu, cg>>
      ELSE /\ nextDoc < MaxDocs
           /\ ~ingest_raises(index)
           /\ \E n \in 0..MaxChunks :
                LET doc_id == nextDoc + 1
                    chunks == ChunksOf(doc_id, n)
                IN /\ pdfs' = pdfs \cup {[id |-> doc_id, n |-> n]}
                   /\ index' = ingest_index(index, chunks)
                   /\ documents' = documents \cup
                        {[id |-> doc_id, selected |-> TRUE, chunk_count |-> n]}
                   /\ nextDoc' = doc_id
           /\ sessionType' = update_session_type(documents')
           /\ cache' = cache_invalidate_session(cache, sid)
           /\ upload' = [filename |-> file, outcome |-> "ingested"]
           /\ UNCHANGED <<library, webMode, clockVars, runVars, retrieved,
                          lastGet, stored, histVars, wr, rd, fu, cg>>

\* delete_document leaving the index files as they are
delete_document_index_keep(idx, docs, pdfFiles) == idx

\* What delete_document leaves in the index directory.
delete_document_index(idx, docs, pdfFiles) == rebuild_session_index(docs, pdfFiles)

\* delete_document of a document of the session (another id raises 404); what
\* earlier queries retrieved is forgotten.
DeleteDocument ==
  /\ \E doc \in documents :
       /\ documents' = documents \ {doc}
       /\ pdfs' = {f \in pdfs : f.id # doc.id}
       /\ index' = delete_document_index(index, documents', pdfs')
       /\ deleted' = deleted \cup {doc.id}
  /\ sessionType' = update_session_type(documents')
  /\ cache' = cache_invalidate_session(cache, sid)
  /\ retrieved' = <<>>
  /\ UNCHANGED <<library, webMode, nextDoc, clockVars, runVars, lastGet,
                 stored, sets, concVars>>

\* toggle_document_selection
ToggleSelection ==
  /\ \E doc \in documents, selected \in BOOLEAN :
       documents' = (documents \ {doc}) \cup {[doc EXCEPT !.selected = selected]}
  /\ UNCHANGED <<pdfs, index, library, sessionType, webMode, nextDoc, cache,
                 clockVars, runVars, retrieved, lastGet, stored, histVars, concVars>>

\* session_service.py toggle_web_mode
ToggleWebMode ==
  /\ \E web_mode \in BOOLEAN : webMode' = web_mode
  /\ UNCHANGED <<documents, pdfs, index, library, sessionType, nextDoc, cache,
                 clockVars, runVars, retrieved, lastGet, stored, histVars, concVars>>

\* The graph states in which a query can reach the retrieval node.
RetrievalStates ==
  {Merge(initial_state(q, get_selected_doc_ids(documents), webMode),
         [rewritten_queries |-> rq]) :
     q \in Queries, rq \in {<<>>, << <<"what">>, <<"brief">> >>}}

\* retrieval_node run by a query on the session as it is now.
RetrievalProbe ==
  /\ \E s \in RetrievalStates :
       \E out \in retrieval_node(s, index.faiss, index.meta, index.pkl,
                                 index.bchunks, library) :
         retrieved' = out.candidates
  /\ UNCHANGED <<envVars, cache, clockVars, runVars, lastGet, stored, histVars,
                 concVars>>

NextStore ==
  \/ IngestDocument
  \/ DeleteDocument
  \/ ToggleSelection
  \/ ToggleWebMode
  \/ RetrievalProbe

SpecStore == InitStore /\ [][NextStore]_vars

\* ============== SpecInval: the cache across completed ingest and delete calls
NextInval == CacheSet \/ IngestDocument \/ DeleteDocument

SpecInval == InitStore /\ [][NextInval]_vars

\* ================ SpecFuse: the session branch of retrieval_node's query loop
\* The search results of each query are inputs: faiss_results and bm25_results
\* are the dicts key -> score the loop builds from the two searches.  Scores
\* and weights count tenths (10 is 1.0), fused scores hundredths (60 is 0.6);
\* 1.0 - 0.6 and 1.0 - 0.2 are exactly 0.4 and 0.8 in binary floating point.
\* The scores a search can attach to a key (1.0 from the dense index, 0.5 or
\* 1.0 from BM25).
DenseScores == {10}
Bm25Scores == {5, 10}

FuseKeys == {<<d, 0>> : d \in 1..MaxKeys}

FuseResults(scores) == UNION {[K -> scores] : K \in SUBSET FuseKeys}

\* Blend ratio by query type.
bm25_weight_swapped(query_type) == IF query_type = "simple" THEN 2 ELSE 6

bm25_weight(query_type) == IF query_type = "simple" THEN 6 ELSE 2

vector_weight(query_type) == 10 - bm25_weight(query_type)

current_weights_fixed(query_type, faiss_results, bm25_results) ==
  [vector |-> vector_weight(query_type), bm25 |-> bm25_weight(query_type)]

\* Adaptive weighting: decided once per query, on whether each search
\* returned anything at all.
current_weights(query_type, faiss_results, bm25_results) ==
  IF DOMAIN faiss_results = {} /\ DOMAIN bm25_results # {}
    THEN [vector |-> 0, bm25 |-> 10]
  ELSE IF DOMAIN faiss_results # {} /\ DOMAIN bm25_results = {}
    THEN [vector |-> 10, bm25 |-> 0]
  ELSE [vector |-> vector_weight(query_type), bm25 |-> bm25_weight(query_type)]

\* chunk["score"] of the chunk appended for `key`.
fused_score(query_type, faiss_results, bm25_results, key) ==
  LET w == current_weights(query_type, faiss_results, bm25_results)
      faiss_score == IF key \in DOMAIN faiss_results
                       THEN faiss_results[key] ELSE 0
      bm25_score == IF key \in DOMAIN bm25_results
                      THEN bm25_results[key] ELSE 0
  IN w.vector * faiss_score + w.bm25 * bm25_score

\* The chunk appended for `key`.  Besides the fields of the code's chunk it
\* records what the blend read: the two scores (0 when the index did not
\* return the key), which index returned the key, and whether each index
\* returned anything for the query.
fused_chunk(query_type, faiss_results, bm25_results, key) ==
  [doc_id |-> key[1], chunk_idx |-> key[2], source |-> "session",
   score |-> fused_score(query_type, faiss_results, bm25_results, key),
   in_faiss |-> key \in DOMAIN faiss_results,
   in_bm25 |-> key \in DOMAIN bm25_results,
   faiss_score |-> IF key \in DOMAIN faiss_results
                     THEN faiss_results[key] ELSE 0,
   bm25_score |-> IF key \in DOMAIN bm25_results THEN bm25_results[key] ELSE 0,
   faiss_any |-> DOMAIN faiss_results # {},
   bm25_any |-> DOMAIN bm25_results # {}]

fuse_step_no_seen(acc, query_type, faiss_results, bm25_results) ==
  LET ks == SeqOfSet(DOMAIN faiss_results \cup DOMAIN bm25_results)
  IN [seen |-> acc.seen \cup Range(ks),
      all_chunks |-> acc.all_chunks \o
        [i \in 1..Len(ks) |->
           fused_chunk(query_type, faiss_results, bm25_results, ks[i])]]

\* `for key in all_keys`: keys already seen are skipped, the others are
\* appended with their fused score.
fuse_step(acc, query_type, faiss_results, bm25_results) ==
  LET all_keys == DOMAIN faiss_results \cup DOMAIN bm25_results
      ks == SeqOfSet(all_keys \ acc.seen)
  IN [seen |-> acc.seen \cup all_keys,
      all_chunks |-> acc.all_chunks \o
        [i \in 1..Len(ks) |->
           fused_chunk(query_type, faiss_results, bm25_results, ks[i])]]

\* retrieval_node reads query_type and starts the loop.
FuseBegin ==
  /\ fu.pc = "idle"
  /\ \E query_type \in {"simple", "multi_hop"} :
       fu' = [NoFusion EXCEPT !.pc = "loop", !.query_type = query_type]
  /\ UNCHANGED <<envVars, cache, clockVars, runVars, retrieved, lastGet, stored,
                 histVars, wr, rd, upload, cg>>

\* One pass of `for q in queries` on the results the two searches returned.
\* again: the pass met a key an earlier query had returned, with another
\* fused score than the one kept.
FuseQuery ==
  /\ fu.pc = "loop"
  /\ fu.n < MaxQueries
  /\ \E faiss_results \in FuseResults(DenseScores),
        bm25_results \in FuseResults(Bm25Scores) :
       LET acc == fuse_step(fu, fu.query_type, faiss_results, bm25_results)
       IN fu' = [fu EXCEPT
                   !.n = @ + 1, !.seen = acc.seen,
                   !.all_chunks = acc.all_chunks,
                   !.again = \E i \in 1..Len(fu.all_chunks) :
                     LET k == KeyOf(fu.all_chunks[i])
                     IN /\ k \in DOMAIN faiss_results \cap DOMAIN bm25_results
                        /\ fu.all_chunks[i].score
                             # fused_score(fu.query_type, faiss_results,
                                           bm25_results, k)]
  /\ UNCHANGED <<envVars, cache, clockVars, runVars, retrieved, lastGet, stored,
                 histVars, wr, rd, upload, cg>>

NextFuse == FuseBegin \/ FuseQuery

SpecFuse == InitStore /\ [][NextFuse]_vars

\* ======================= SpecConc: ingest, delete and retrieval, file by file
\* No lock guards the index directory and no file is written through a rename:
\* every file read and write of a call is a step of its own.
concRest == <<library, webMode, clockVars, runVars, retrieved, lastGet, stored, sets,
              fu, upload, cg>>

InitConc ==
  /\ InitEnv
  /\ \A d \in documents : d.selected
  /\ library = NoFile
  /\ webMode = FALSE
  /\ InitRest

\* ingest_document up to "Embed": the PDF is written, parsed and chunked under
\* a fresh doc_id.
IngestBegin(w) ==
  /\ wr[w].pc = "idle"
  /\ nextDoc < MaxDocs
  /\ \E n \in 0..MaxChunks :
       /\ pdfs' = pdfs \cup {[id |-> nextDoc + 1, n |-> n]}
       /\ wr' = [wr EXCEPT ![w] =
                   [IdleWriter EXCEPT !.pc = "load_faiss", !.op = "ingest",
                                      !.doc = nextDoc + 1,
                                      !.chunks = ChunksOf(nextDoc + 1, n),
                                      !.pre = index]]
  /\ nextDoc' = nextDoc + 1
  /\ UNCHANGED <<documents, index, sessionType, cache, deleted, rd, concRest>>

\* "FAISS store": VectorStore.load reads index.faiss, then metadata.json;
\* store.add_chunks follows when there are embeddings.
added_dense(store, chunks) ==
  IF chunks # <<>> THEN VectorStore_add_chunks(store, chunks) ELSE store

WriterLoadFaiss(w) ==
  /\ wr[w].pc = "load_faiss"
  /\ wr' = [wr EXCEPT ![w] =
              IF ~index.faiss.present
                THEN [@ EXCEPT !.dense = added_dense(VectorStore_new, wr[w].chunks),
                               !.pc = "save_faiss"]
                ELSE [@ EXCEPT !.dense = [index |-> index.faiss.content,
                                          metadata |-> <<>>],
                               !.pc = "load_meta"]]
  /\ UNCHANGED <<envVars, cache, deleted, rd, concRest>>

WriterLoadMeta(w) ==
  /\ wr[w].pc = "load_meta"
  /\ wr' = [wr EXCEPT ![w] =
              IF ~index.meta.present
                THEN [@ EXCEPT !.pc = "raised"]
                ELSE [@ EXCEPT !.dense =
                                 added_dense([index |-> wr[w].dense.index,
                                              metadata |-> index.meta.content],
                                             wr[w].chunks),
                               !.pc = "save_faiss"]]
  /\ UNCHANGED <<envVars, cache, deleted, rd, concRest>>

\* VectorStore.save: faiss.write_index, then json.dump of the metadata.
WriterSaveFaiss(w) ==
  /\ wr[w].pc = "save_faiss"
  /\ index' = [index EXCEPT !.faiss = VectorStore_save_faiss(wr[w].dense)]
  /\ wr' = [wr EXCEPT ![w].pc = "save_meta"]
  /\ UNCHANGED <<documents, pdfs, sessionType, nextDoc, cache, deleted, rd, concRest>>

WriterSaveMeta(w) ==
  /\ wr[w].pc = "save_meta"
  /\ index' = [index EXCEPT !.meta = VectorStore_save_meta(wr[w].dense)]
  /\ wr' = [wr EXCEPT ![w].pc =
              IF wr[w].op = "ingest" THEN "load_pkl" ELSE "save_pkl"]
  /\ UNCHANGED <<documents, pdfs, sessionType, nextDoc, cache, deleted, rd, concRest>>

\* "BM25 store": BM25Store.load reads bm25.pkl, then bm25_chunks.json;
\* bm25_store.add_chunks follows.
WriterLoadPkl(w) ==
  /\ wr[w].pc = "load_pkl"
  /\ wr' = [wr EXCEPT ![w] =
              IF ~index.pkl.present
                THEN [@ EXCEPT !.sparse = BM25Store_add_chunks(BM25Store_new,
                                                               wr[w].chunks),
                               !.pc = "save_pkl"]
                ELSE [@ EXCEPT !.sparse = [chunks |-> <<>>,
                                           bm25 |-> index.pkl.content],
                               !.pc = "load_chunks"]]
  /\ UNCHANGED <<envVars, cache, deleted, rd, concRest>>

WriterLoadChunks(w) ==
  /\ wr[w].pc = "load_chunks"
  /\ wr' = [wr EXCEPT ![w] =
              IF ~index.bchunks.present
                THEN [@ EXCEPT !.pc = "raised"]
                ELSE [@ EXCEPT !.sparse =
                                 BM25Store_add_chunks(
                                   [chunks |-> index.bchunks.content,
                                    bm25 |-> wr[w].sparse.bm25], wr[w].chunks),
                               !.pc = "save_pkl"]]
  /\ UNCHANGED <<envVars, cache, deleted, rd, concRest>>

\* BM25Store.save: pickle.dump of _bm25, then json.dump of the chunks.
WriterSavePkl(w) ==
  /\ wr[w].pc = "save_pkl"
  /\ index' = [index EXCEPT !.pkl = BM25Store_save_pkl(wr[w].sparse)]
  /\ wr' = [wr EXCEPT ![w].pc = "save_chunks"]
  /\ UNCHANGED <<documents, pdfs, sessionType, nextDoc, cache, deleted, rd, concRest>>

WriterSaveChunks(w) ==
  /\ wr[w].pc = "save_chunks"
  /\ index' = [index EXCEPT !.bchunks = BM25Store_save_chunks(wr[w].sparse)]
  /\ wr' = [wr EXCEPT ![w].pc = "commit"]
  /\ UNCHANGED <<documents, pdfs, sessionType, nextDoc, cache, deleted, rd, concRest>>

\* ingest_document from "DB record" on: the Document row, update_session_type,
\* cache_invalidate_session.
IngestCommit(w) ==
  /\ wr[w].pc = "commit" /\ wr[w].op = "ingest"
  /\ documents' = documents \cup
       {[id |-> wr[w].doc, selected |-> TRUE, chunk_count |-> Len(wr[w].chunks)]}
  /\ sessionType' = update_session_type(documents')
  /\ cache' = cache_invalidate_session(cache, sid)
  /\ wr' = [wr EXCEPT ![w].pc = "done"]
  /\ UNCHANGED <<pdfs, index, nextDoc, deleted, rd, concRest>>

\* delete_document: the Document row is deleted and committed first.
DeleteBegin(w) ==
  /\ wr[w].pc = "idle"
  /\ \E doc \in documents :
       /\ documents' = documents \ {doc}
       /\ wr' = [wr EXCEPT ![w] =
                   [IdleWriter EXCEPT !.pc = "remove_pdf", !.op = "delete",
                                      !.doc = doc.id, !.pre = index]]
  /\ UNCHANGED <<pdfs, index, sessionType, nextDoc, cache, deleted, rd, concRest>>

DeleteRemovePdf(w) ==
  /\ wr[w].pc = "remove_pdf"
  /\ pdfs' = {f \in pdfs : f.id # wr[w].doc}
  /\ wr' = [wr EXCEPT ![w].pc = "rebuild"]
  /\ UNCHANGED <<documents, index, sessionType, nextDoc, cache, deleted, rd, concRest>>

\* _rebuild_session_index up to the saves: fresh stores from the PDFs of the
\* documents that have a row now.
DeleteRebuild(w) ==
  /\ wr[w].pc = "rebuild"
  /\ LET stores == rebuild_stores({d.id : d \in documents}, pdfs,
                                  [dense |-> VectorStore_new,
                                   sparse |-> BM25Store_new])
     IN wr' = [wr EXCEPT ![w].dense = stores.dense, ![w].sparse = stores.sparse,
                         ![w].pc = "save_faiss"]
  /\ UNCHANGED <<envVars, cache, deleted, rd, concRest>>

DeleteCommit(w) ==
  /\ wr[w].pc = "commit" /\ wr[w].op = "delete"
  /\ sessionType' = update_session_type(documents)
  /\ cache' = cache_invalidate_session(cache, sid)
  /\ deleted' = deleted \cup {wr[w].doc}
  /\ wr' = [wr EXCEPT ![w].pc = "done"]
  /\ UNCHANGED <<documents, pdfs, index, nextDoc, rd, concRest>>

\* The call fails between two of its steps (an exception of a later step's
\* library call, or the process being killed): nothing is rolled back.
Crash(w) ==
  /\ wr[w].pc \notin {"idle", "done", "crashed", "raised"}
  /\ wr' = [wr EXCEPT ![w].pc = "crashed"]
  /\ UNCHANGED <<envVars, cache, deleted, rd, concRest>>

\* retrieval_node: VectorStore.load, then BM25Store.load, of the session index.
ReaderBegin ==
  /\ rd.pc = "idle"
  /\ rd' = [IdleReader EXCEPT !.pc = "load_faiss",
                              !.after = {w \in Writers : wr[w].pc = "done"}]
  /\ UNCHANGED <<envVars, cache, deleted, wr, concRest>>

ReaderLoadFaiss ==
  /\ rd.pc = "load_faiss"
  /\ rd' = IF ~index.faiss.present
             THEN [rd EXCEPT !.pc = "load_pkl"]
             ELSE [rd EXCEPT !.dense = [index |-> index.faiss.content,
                                        metadata |-> <<>>],
                             !.pc = "load_meta"]
  /\ UNCHANGED <<envVars, cache, deleted, wr, concRest>>

ReaderLoadMeta ==
  /\ rd.pc = "load_meta"
  /\ rd' = IF ~index.meta.present
             THEN [rd EXCEPT !.pc = "raised"]
             ELSE [rd EXCEPT !.dense = [index |-> @.index,
                                        metadata |-> index.meta.content],
                             !.pc = "load_pkl"]
  /\ UNCHANGED <<envVars, cache, deleted, wr, concRest>>

ReaderLoadPkl ==
  /\ rd.pc = "load_pkl"
  /\ rd' = IF ~index.pkl.present
             THEN [rd EXCEPT !.pc = "done"]
             ELSE [rd EXCEPT !.sparse = [chunks |-> <<>>,
                                         bm25 |-> index.pkl.content],
                             !.pc = "load_chunks"]
  /\ UNCHANGED <<envVars, cache, deleted, wr, concRest>>

ReaderLoadChunks ==
  /\ rd.pc = "load_chunks"
  /\ rd' = IF ~index.bchunks.present
             THEN [rd EXCEPT !.pc = "raised"]
             ELSE [rd EXCEPT !.sparse = [chunks |-> index.bchunks.content,
                                         bm25 |-> @.bm25],
                             !.pc = "done"]
  /\ UNCHANGED <<envVars, cache, deleted, wr, concRest>>

NextConc ==
  \/ \E w \in Writers :
       \/ IngestBegin(w)
       \/ WriterLoadFaiss(w)
       \/ WriterLoadMeta(w)
       \/ WriterSaveFaiss(w)
       \/ WriterSaveMeta(w)
       \/ WriterLoadPkl(w)
       \/ WriterLoadChunks(w)
       \/ WriterSavePkl(w)
       \/ WriterSaveChunks(w)
       \/ IngestCommit(w)
       \/ DeleteBegin(w)
       \/ DeleteRemovePdf(w)
       \/ DeleteRebuild(w)
       \/ DeleteCommit(w)
       \/ Crash(w)
  \/ ReaderBegin
  \/ ReaderLoadFaiss
  \/ ReaderLoadMeta
  \/ ReaderLoadPkl
  \/ ReaderLoadChunks

SpecConc == InitConc /\ [][NextConc]_vars

\* What the two load calls of retrieval_node yield on an index directory.
loaded(idx) ==
  [dense |-> VectorStore_load(idx.faiss, idx.meta),
   sparse |-> BM25Store_load(idx.pkl, idx.bchunks)]

\* ================================================================== claims
\* C1: in every reachable state of a graph run rewrite_count <= MAX_REWRITES,
\* in particular at the terminal nodes, whatever the LLM calls return.
C1_RewriteCountBounded == st.rewrite_count <= MAX_REWRITES

\* A run that used up both rewrites and ended at a terminal node.
C1_Witness ==
  pc = "END" /\ hist.terminal \in TERMINAL_NODES
    /\ st.rewrite_count = MAX_REWRITES

\* C2: every graph run reaches a terminal node (it never ends by an exception
\* leaving the graph) and executes retrieval -> generator at most
\* MAX_REWRITES + 1 times.
C2_RunReachesTerminal ==
  /\ pc # "raised"
  /\ hist.nRetr <= MAX_REWRITES + 1

\* C3: a rag-routed run whose generator yields EMPTY on every pass ends at
\* not_found after exactly 3 generator executions, with the no-information
\* answer and confident = false.
C3_ExhaustionAfterThreePasses ==
  (pc = "END" /\ st.route = "rag" /\ hist.nGen > 0 /\ hist.allEmpty)
    => /\ hist.terminal = "not_found"
       /\ hist.nGen = MAX_REWRITES + 1
       /\ st.answer = NO_INFO
       /\ "confident" \in st.keys /\ st.confident = FALSE

\* C5: when run_chat returned a response and is called again with the same
\* session and query within the TTL, the second call returns the stored
\* response unchanged and does not enter the graph (no LLM call, no retrieval).
C5_SecondCallServedFromCache ==
  [][(/\ runs' = runs + 1
      /\ response.kind = "returned"
      /\ hist'.query = response.query
      /\ now - response.at <= TTL_SECONDS)
       => /\ response' = response
          /\ pc' = "idle"
          /\ hist'.hit /\ ~hist'.graph /\ hist'.nLLM = 0 /\ hist'.nRetr = 0
    ]_vars

\* A second call of the same query answered with the first call's response,
\* TTL_SECONDS after it was stored.
C5_Witness ==
  /\ runs = 2 /\ hist.hit /\ pc = "idle"
  /\ response.kind = "returned" /\ response.body.message_id = 1
  /\ now - response.at = TTL_SECONDS

\* C4: after ingest_document or delete_document completes for the session,
\* cache_get(session_id, q) returns None for every query q.
C4_CacheEmptyAfterMutation ==
  [][({d.id : d \in documents'} # {d.id : d \in documents})
       => \A q \in Queries : cache_get(cache', sid, q, now').is_none]_vars

\* C6: cache_get returns None when the key has no entry or the entry is older
\* than TTL_SECONDS, and otherwise the result most recently stored by
\* cache_set for the key; an entry of age exactly TTL_SECONDS is returned.
C6_CacheGetSemantics ==
  [][(lastGet' # lastGet) =>
       LET entry == cache[lastGet'.key]
           last == stored[lastGet'.key]
       IN /\ (~entry.present \/ now - entry.ts > TTL_SECONDS)
               => lastGet'.result = NoneResult
          /\ (entry.present /\ now - entry.ts <= TTL_SECONDS)
               => /\ lastGet'.result = last.result
                  /\ ~lastGet'.result.is_none
                  /\ now - last.ts <= TTL_SECONDS
    ]_vars

\* A cache_get that returned an entry of age exactly TTL_SECONDS, the key
\* having been set twice.
C6_Witness ==
  /\ lastGet.called /\ ~lastGet.result.is_none
  /\ lastGet.at - stored[lastGet.key].ts = TTL_SECONDS
  /\ lastGet.result.message_id = 2

\* C10: once delete_document(doc_id) has completed, no retrieval on the
\* session yields a chunk of that document, whatever was ingested and deleted
\* before.
C10_NoDeletedChunkRetrieved ==
  \A s \in RetrievalStates :
    \A out \in retrieval_node(s, index.faiss, index.meta, index.pkl,
                              index.bchunks, library) :
      \A i \in 1..Len(out.candidates) : out.candidates[i].doc_id \notin deleted

\* A retrieval after the last delete that gathered chunks of a remaining
\* document.
C10_Witness ==
  /\ deleted # {}
  /\ retrieved # <<>>
  /\ \E i \in 1..Len(retrieved) : retrieved[i].source = "session"

\* C7: when ingest_document fails at any point (no other writer running),
\* the index directory holds its pre-ingest content or the complete
\* post-ingest content, never new vectors with the old metadata list.
C7_FailedIngestLeavesPreOrPost ==
  \A w \in Writers :
    (/\ wr[w].op = "ingest" /\ wr[w].pc \in {"crashed", "raised"}
     /\ \A v \in Writers \ {w} : wr[v].pc = "idle")
      => index \in {wr[w].pre, ingest_index(wr[w].pre, wr[w].chunks)}

\* C8: with one ingest_document and one query on the session, the retrieval
\* node loads the complete pre-ingest or the complete post-ingest index in
\* both stores (and loads at all), and a query begun after the ingest
\* returned loads the post-ingest index.
C8_ReaderSeesPreOrPost ==
  \A w \in Writers :
    (/\ rd.pc \in {"done", "raised"}
     /\ wr[w].op = "ingest" /\ wr[w].pc = "done"
     /\ \A v \in Writers \ {w} : wr[v].pc = "idle")
      => LET pre == loaded(wr[w].pre)
             post == loaded(ingest_index(wr[w].pre, wr[w].chunks))
             got == [dense |-> rd.dense, sparse |-> rd.sparse]
         IN /\ rd.pc = "done"
            /\ got \in {pre, post}
            /\ (w \in rd.after) => got = post

\* C9: after two concurrent writers (two ingests, or an ingest and a delete)
\* have both completed, the dense and the sparse index files hold the chunks
\* of every document that has a Document row.
C9_NoChunksLost ==
  (\A w \in Writers : wr[w].pc = "done")
    => \A d \in documents :
         \A c \in Range(ChunksOf(d.id, d.chunk_count)) :
           /\ c \in Range(index.meta.content)
           /\ KeyOf(c) \in Range(index.faiss.content)
           /\ c \in Range(index.bchunks.content)
           /\ KeyOf(c) \in Range(index.pkl.content)


\* C11 (SpecFuse): retrieval_node's chunk list holds each (doc_id, chunk_idx)
\* key at most once, however many queries ran and however their dense and
\* sparse results overlap, and a later query that returns a key again leaves
\* the chunk and fused score of the first query in place.
C11_FirstOccurrenceKept ==
  [][/\ \A i, j \in 1..Len(fu'.all_chunks) :
          KeyOf(fu'.all_chunks[i]) = KeyOf(fu'.all_chunks[j]) => i = j
     /\ fu.pc = "loop"
          => SubSeq(fu'.all_chunks, 1, Len(fu.all_chunks)) = fu.all_chunks
    ]_vars

\* A later query returned, from both indexes, a key an earlier query had
\* returned, with another fused score.
C11_Witness ==
  fu.n >= 2 /\ fu.again

\* C19 (SpecFuse): when both indexes returned results for the query, a chunk
\* only BM25 returned with bm25_score 1.0 gets 0.6 for query_type simple and
\* 0.2 otherwise, a chunk only the dense index returned with score 1.0 gets 0.4
\* for simple and 0.8 otherwise; for simple the BM25-only chunk scores higher.
C19_HybridWeights ==
  LET simple == fu.query_type = "simple"
      both == {c \in Range(fu.all_chunks) : c.faiss_any /\ c.bm25_any}
      bm25_only == {c \in both : ~c.in_faiss /\ c.bm25_score = 10}
      dense_only == {c \in both : ~c.in_bm25 /\ c.faiss_score = 10}
  IN /\ \A c \in bm25_only : c.score = (IF simple THEN 60 ELSE 20)
     /\ \A c \in dense_only : c.score = (IF simple THEN 40 ELSE 80)
     /\ simple => \A b \in bm25_only, d \in dense_only : b.score > d.score

\* One simple query for which BM25 alone returned one key and the dense index
\* alone the other, both with score 1.0: the chunks score 0.6 and 0.4.
C19_Witness ==
  /\ fu.n = 1 /\ fu.query_type = "simple"
  /\ \E b, d \in Range(fu.all_chunks) :
       /\ b.in_bm25 /\ ~b.in_faiss /\ b.faiss_any /\ b.bm25_score = 10
       /\ b.score = 60
       /\ d.in_faiss /\ ~d.in_bm25 /\ d.bm25_any /\ d.faiss_score = 10
       /\ d.score = 40

\* C20 as stated (SpecFuse): a chunk whose key only one index returned for the
\* query gets that index's own score with weight 1.0, whatever the other index
\* returned for other keys.
C20_SingleIndexWeightOne ==
  \A c \in Range(fu.all_chunks) :
    /\ ~c.in_faiss => c.score = 10 * c.bm25_score
    /\ ~c.in_bm25 => c.score = 10 * c.faiss_score

\* C20 amended (SpecFuse): a chunk whose key only one index returned gets that
\* index's own score with weight 1.0 when the other index returned nothing at
\* all for the query, and with the index's query_type weight (0.6 or 0.2 for
\* BM25, 0.4 or 0.8 for dense) when the other index returned other keys.
C20_SingleIndexWeight ==
  LET simple == fu.query_type = "simple"
  IN \A c \in Range(fu.all_chunks) :
       /\ ~c.in_faiss
            => c.score = (IF ~c.faiss_any THEN 10
                          ELSE IF simple THEN 6 ELSE 2) * c.bm25_score
       /\ ~c.in_bm25
            => c.score = (IF ~c.bm25_any THEN 10
                          ELSE IF simple THEN 4 ELSE 8) * c.faiss_score

\* Both cases in one retrieval: the first query got results from BM25 only
\* (weight 1.0), the second a BM25-only key next to a dense result (0.6).
C20_Witness ==
  /\ fu.n = 2 /\ fu.query_type = "simple" /\ Len(fu.all_chunks) = 2
  /\ ~fu.all_chunks[1].faiss_any /\ fu.all_chunks[1].bm25_score = 5
  /\ fu.all_chunks[1].score = 50
  /\ ~fu.all_chunks[2].in_faiss /\ fu.all_chunks[2].faiss_any
  /\ fu.all_chunks[2].bm25_score = 5
  /\ fu.all_chunks[2].score = 30


C14_ChatRouteDirect ==
  ("route" \in st.keys /\ st.route = "chat")
    => /\ pc \notin {"query_analyzer", "query_rewriter", "retrieval",
                     "self_evaluator", "raised"}
       /\ hist.nRewr = 0 /\ hist.nRetr = 0 /\ hist.nEval = 0
       /\ pc = "END" => (hist.terminal = "output" /\ hist.nLLM = 1)


\* C15 (Spec): a run the router sends to summarize executes the summarizer
\* and ends at output, without the generator, retrieval or the
\* self-evaluator, with sources = [] and confident = true in its final state.
C15_SummarizeRoute ==
  ("route" \in st.keys /\ st.route = "summarize")
    => /\ pc \in {"summarizer", "output", "END"}
       /\ hist.nGen = 0 /\ hist.nRetr = 0 /\ hist.nEval = 0
       /\ pc = "END" => /\ hist.terminal = "output"
                        /\ Get(st, "sources", <<"?">>) = <<>>
                        /\ Get(st, "confident", FALSE)

C17_ConfidentImpliesGood ==
  /\ pc = "END"
       => (Get(st, "confident", TRUE) => Get(st, "verdict", "") = "GOOD")
  /\ response.kind = "returned"
       => (response.body.confident => response.body.verdict = "GOOD")

\* A run that ended at output with a confident answer, returned to the caller.
C17_Witness ==
  /\ response.kind = "returned"
  /\ response.body.confident
  /\ response.body.verdict = "GOOD"
  /\ response.body.context_verdict = "SUFFICIENT"

\* C18 (Spec): no run raises to the caller of run_chat, and every response
\* carries answer, sources, confident, context_verdict, verdict and
\* missing_info, with a non-empty answer or the no-information message.
C18_StructuredResponse ==
  /\ response.kind # "raised"
  /\ response.kind = "returned"
       => /\ ~response.body.is_none
          /\ response.body.answer # "" \/ response.body.answer = NO_INFO

\* C21 (SpecStore): after any sequence of completed ingest_document and
\* delete_document calls, session_type is rag exactly when the session has a
\* Document record, and general otherwise.
C21_SessionTypeFollowsDocuments ==
  /\ sessionType \in {"rag", "general"}
  /\ sessionType = "rag" <=> documents # {}

\* The way back: documents were ingested, all of them were deleted again, and
\* the session is general.
C21_Witness ==
  /\ deleted # {} /\ nextDoc > 0
  /\ documents = {}
  /\ sessionType = "general"

C22_WitnessNoLibrary ==
  /\ Get(st, "web_mode", FALSE) /\ ~library.present
  /\ hist.nRetr > 0 /\ ~st.found /\ pc = "generator"

\* C23 (SpecConc): a load of the session index never raises: when an index
\* file is there and its companion file is missing, VectorStore.load and
\* BM25Store.load yield an empty index and the query or the ingest goes on.
C23_LoadNeverRaises ==
  /\ rd.pc # "raised"
  /\ \A w \in Writers : wr[w].pc # "raised"
  /\ (rd.pc = "load_pkl" /\ index.faiss.present /\ ~index.meta.present)
       => rd.dense = VectorStore_new

\* C24 (SpecInval): an ingest_document call whose file name is missing or
\* does not end in .pdf is rejected and changes nothing: the PDF directory, the
\* four index files, the Document rows, session_type and the cache are as
\* before the call.
C24_NonPdfRejected ==
  [][(upload' # upload /\ ExtLower[upload'.filename.ext] # ".pdf")
       => /\ upload'.outcome = "rejected"
          /\ UNCHANGED <<pdfs, index, documents, nextDoc, sessionType, cache>>
    ]_vars

\* A .txt upload was rejected on a session that holds a document and a cached
\* response.
C24_Witness ==
  /\ upload.outcome = "rejected" /\ upload.filename.ext = ".txt"
  /\ documents # {}
  /\ \E k \in CacheKeys : cache[k].present

\* The chunk_idx values of a chunk list are 0..n-1 in list order, and page
\* does not decrease along it.
C25_Contiguous(chunks) ==
  /\ \A i \in 1..Len(chunks) : chunks[i].chunk_idx = i - 1
  /\ \A i, j \in 1..Len(chunks) : i <= j => chunks[i].page <= chunks[j].page

\* C25 (SpecStore): after any sequence of ingests and deletes (the same file
\* ingested twice included) the persisted chunk lists hold no two chunks with
\* the same (doc_id, chunk_idx); the chunks of each document have chunk_idx
\* 0..n-1 with page non-decreasing, as chunk_pages numbers them for every
\* page layout; the Documents have distinct doc_ids.
C25_ChunkKeysUnique ==
  /\ \A content \in {index.meta.content, index.bchunks.content} :
       /\ \A i, j \in 1..Len(content) :
            KeyOf(content[i]) = KeyOf(content[j]) => i = j
       /\ \A d \in documents :
            /\ C25_Contiguous(SelectChunks(content,
                 {c \in Range(content) : c.doc_id = d.id}))
            /\ Cardinality({c \in Range(content) : c.doc_id = d.id})
                 = d.chunk_count
  /\ \A d1, d2 \in documents : d1.id = d2.id => d1 = d2
  /\ \A pages \in Layouts : C25_Contiguous(chunk_pages(pages))

\* The same file was ingested twice: two Documents, and each persisted list
\* holds the chunks of both.
C25_Witness ==
  /\ Cardinality(documents) = 2
  /\ \A d \in documents : d.chunk_count = MaxChunks
  /\ Len(index.meta.content) = 2 * MaxChunks
  /\ Len(index.bchunks.content) = 2 * MaxChunks

\* C26 (SpecStore): in the VectorStore that add_chunks and save left on disk
\* and load reads back, the number of vectors equals the length of the
\* metadata list, and the i-th metadata entry is the chunk whose vector was
\* added i-th.
C26_VectorStoreAligned ==
  LET store == VectorStore_load(index.faiss, index.meta)
  IN /\ ~VectorStore_load_raises(index.faiss, index.meta)
     /\ VectorStore_count(store) = Len(store.metadata)
     /\ \A i \in 1..Len(store.metadata) :
          store.index[i] = KeyOf(store.metadata[i])

\* A store that went through two rounds of load, add_chunks and save and holds
\* the chunks of two documents.
C26_Witness ==
  LET store == VectorStore_load(index.faiss, index.meta)
  IN /\ VectorStore_count(store) >= 2
     /\ \E i, j \in 1..Len(store.metadata) :
          store.metadata[i].doc_id # store.metadata[j].doc_id

\* ---------------------------------------------------------------- C27
\* C27: in every pipeline state, from the initial state of a run on and after
\* every node, found is true exactly when the chunks list is non-empty.
C27_FoundIffChunks ==
  Get(st, "found", FALSE) <=> Len(Get(st, "chunks", <<>>)) > 0

\* A rag run whose retrieval node returned (no candidate left to rerank) and
\* handed an empty chunks list with found = False to the generator.
C27_Witness ==
  /\ pc = "generator"
  /\ st.route = "rag"
  /\ hist.nRetr > 0
  /\ "found" \in st.keys /\ ~st.found
  /\ st.chunks = <<>>

\* ---------------------------------------------------------------- C28
\* C28: the verdict the self-evaluator writes is the one the top rerank_score
\* of the run's chunks determines (>= 0.7 GOOD, >= 0.4 UNSURE, lower BAD; the
\* scores in hundredths, 0 when there is no chunk), and confident is set
\* exactly for GOOD.
C28_VerdictFromScore ==
  [][pc = "self_evaluator" /\ pc' # pc =>
       LET chunks == Get(st, "chunks", <<>>)
           scores == {IF "rerank_score" \in DOMAIN chunks[i]
                        THEN chunks[i].rerank_score ELSE 0 :
                      i \in 1..Len(chunks)}
           top == IF scores = {} THEN 0
                  ELSE CHOOSE m \in scores : \A x \in scores : x <= m
           score_verdict == IF top >= 70 THEN "GOOD"
                            ELSE IF top >= 40 THEN "UNSURE" ELSE "BAD"
       IN /\ st'.verdict = score_verdict
          /\ st'.confident = (st'.verdict = "GOOD")]_vars

\* ---------------------------------------------------------------- C29
\* C29: whatever the cache holds, a cache_set for (s1, q1) makes a cache_get
\* for (s2, q2) return the stored value when s1 = s2 and the two queries are
\* equal after stripping surrounding whitespace and lower-casing; when the
\* sessions differ or the normalised queries differ, the cache_set leaves the
\* answer of that cache_get as it was (the two share no entry).
C29_NormalisedKey ==
  \A s1 \in SessionIds, s2 \in SessionIds, q1 \in Queries, q2 \in Queries :
    LET result == CachePayload(MaxSets + 1)
        after == cache_set(cache, s1, q1, result, now)
    IN IF s1 = s2 /\ Lower(Strip(q1)) = Lower(Strip(q2))
         THEN cache_get(after, s2, q2, now) = result
         ELSE cache_get(after, s2, q2, now) = cache_get(cache, s2, q2, now)

\* A cache_get with one spelling of a query answered from the entry a
\* cache_set with another spelling of it stored, while the same session holds
\* no entry for a different query.
C29_Witness ==
  /\ lastGet.called
  /\ lastGet.key = make_key("s1", <<" ", "WHAT">>)
  /\ ~lastGet.result.is_none
  /\ sets = 1
  /\ cache[make_key("s1", <<"what">>)].present
  /\ ~cache[make_key("s1", <<"brief">>)].present
  /\ ~cache[make_key("s2", <<"what">>)].present

\* ---------------------------------------------------------------- C30
\* The successor the claim names for a generator result on a rag run.
C30_Successor(s) ==
  IF s.context_verdict = "SUFFICIENT" THEN "self_evaluator"
  ELSE IF s.rewrite_count < MAX_REWRITES THEN "query_rewriter"
  ELSE IF s.context_verdict = "EMPTY" THEN "not_found"
  ELSE "self_evaluator"

\* The states a generator can leave behind on a rag run: a classified query,
\* one of the three context verdicts, a rewrite count up to MAX_REWRITES.
C30_GeneratorResults ==
  {Merge(initial_state(<<"what">>, {1}, FALSE),
         [route |-> "rag", query_type |-> qt, context_verdict |-> cv,
          rewrite_count |-> n]) :
     qt \in QUERY_TYPES, cv \in {"SUFFICIENT", "GAP", "EMPTY"},
     n \in 0..MAX_REWRITES}

\* C30: after the generator on a rag run, SUFFICIENT on a non-simple query
\* leads to self_evaluator, GAP or EMPTY with rewrite_count < MAX_REWRITES to
\* query_rewriter, EMPTY with rewrite_count = MAX_REWRITES to not_found, GAP
\* with rewrite_count = MAX_REWRITES to self_evaluator, and to nothing else:
\* for every generator step of a run, and for the edge function and path map
\* on every generator result.
C30_GeneratorSuccessor ==
  [][(pc = "generator" /\ pc' # pc) =>
       /\ (/\ Get(st', "route", "") = "rag"
           /\ ~(/\ Get(st', "query_type", "") = "simple"
                /\ st'.context_verdict = "SUFFICIENT"))
            => pc' = C30_Successor(st')
       /\ \A s \in C30_GeneratorResults :
            ~(s.query_type = "simple" /\ s.context_verdict = "SUFFICIENT")
              => Follow(GeneratorEnds, route_after_generator(s))
                   = C30_Successor(s)
    ]_vars

\* A rag run whose generator reported EMPTY after the last allowed rewrite and
\* was sent to the not_found terminal, having gone through query_rewriter for
\* the earlier EMPTY results.
C30_Witness ==
  /\ pc = "not_found"
  /\ Get(st, "route", "") = "rag"
  /\ st.context_verdict = "EMPTY"
  /\ st.rewrite_count = MAX_REWRITES
  /\ hist.nRewr = MAX_REWRITES
  /\ hist.nGen = MAX_REWRITES + 1

\* ---------------------------------------------------------------- C31
\* C31: after the self-evaluator, verdict GOOD leads to output with confident
\* = true; UNSURE or BAD with rewrite_count < MAX_REWRITES leads to
\* query_rewriter; UNSURE or BAD with rewrite_count = MAX_REWRITES leads to
\* output with confident = false; and a run standing at output after a
\* self-evaluation has confident = (verdict = GOOD).
C31_SelfEvalSuccessor ==
  [][/\ (pc = "self_evaluator" /\ pc' # pc) =>
          LET verdict == st'.verdict
              rewrite_count == Get(st', "rewrite_count", 0)
          IN /\ "verdict" \in st'.keys /\ verdict \in {"GOOD", "UNSURE", "BAD"}
             /\ rewrite_count <= MAX_REWRITES
             /\ verdict = "GOOD" => pc' = "output" /\ st'.confident
             /\ (verdict # "GOOD" /\ rewrite_count < MAX_REWRITES)
                  => pc' = "query_rewriter"
             /\ (verdict # "GOOD" /\ rewrite_count = MAX_REWRITES)
                  => pc' = "output" /\ ~st'.confident
     /\ (pc' = "output" /\ hist'.nEval > 0)
          => Get(st', "confident", FALSE) = (Get(st', "verdict", "") = "GOOD")
    ]_vars

\* A run sent to output by the self-evaluator with a verdict other than GOOD
\* after the last allowed rewrite, confident = false.
C31_Witness ==
  /\ pc = "output"
  /\ hist.nEval = MAX_REWRITES + 1
  /\ st.verdict = "BAD"
  /\ st.rewrite_count = MAX_REWRITES
  /\ ~st.confident

\* ============================ SpecRewrite: query_rewriter_node on any reply
\* The replies of the rewriter's LLM call: unparsable text, or JSON whose
\* "rewritten_queries" is an empty list, a list with or without the user's
\* query, a list of more than three queries, or no list at all.
RewriterReplyLists ==
  { <<>>,
    << <<"the">> >>,
    << <<"what">>, <<"the">> >>,
    << <<"the">>, <<"the", "the">>, <<"brief">> >>,
    << <<"the">>, <<"the", "the">>, <<"the", "brief">>, <<"what">> >> }

RewriterReplies ==
  [parsed : BOOLEAN, query_type : {"simple", "multi_hop", "bogus"},
   strategy : {"single", "decompose", "bogus"},
   rewritten_queries : {ListOf(l) : l \in RewriterReplyLists}
                         \cup {NonList(<<"the">>)}]

\* The states the graph enters the rewriter with: from the analyzer (query
\* classified) or after a generator or self-evaluator result on a route
\* without classification, with rewrites left.
RewriterEntryStates ==
  {Merge(initial_state(q, {}, FALSE), upd) :
     q \in Queries,
     upd \in {[rewrite_count |-> n] : n \in 0..(MAX_REWRITES - 1)}
             \cup {[rewrite_count |-> n, query_type |-> "multi_hop"] :
                     n \in 0..(MAX_REWRITES - 1)}}

RewriteBegin ==
  /\ pc \in {"idle", "retrieval"}
  /\ \E s \in RewriterEntryStates :
       /\ st' = s
       /\ hist' = [NoHist EXCEPT !.query = s.query, !.nRewr = s.rewrite_count]
  /\ pc' = "query_rewriter"
  /\ UNCHANGED <<envVars, cache, stored, clockVars, runs, response, retrieved,
                 lastGet, histVars, concVars>>

RewriteRun ==
  /\ pc = "query_rewriter"
  /\ \E resp \in RewriterReplies : st' = Merge(st, query_rewriter_node(st, resp))
  /\ pc' = "retrieval"
  /\ hist' = [hist EXCEPT !.nLLM = @ + 1, !.nRewr = @ + 1]
  /\ UNCHANGED <<envVars, cache, stored, clockVars, runs, response, retrieved,
                 lastGet, histVars, concVars>>

NextRewrite == RewriteBegin \/ RewriteRun

SpecRewrite == InitStore /\ [][NextRewrite]_vars

\* ---------------------------------------------------------------- C32
\* C32: after every execution of query_rewriter_node, whatever the LLM
\* replied, rewritten_queries contains the user's query and has between 1 and
\* 3 entries.
C32_RewrittenQueries ==
  [][(pc = "query_rewriter" /\ pc' # pc) =>
       /\ "rewritten_queries" \in st'.keys
       /\ st.query \in Range(st'.rewritten_queries)
       /\ Len(st'.rewritten_queries) \in 1..3
    ]_vars

\* The rewriter has run on a reply of three or more queries without the
\* user's query among the first three: the user's query leads the list and
\* two of the reply's queries follow.
C32_Witness ==
  /\ pc = "retrieval"
  /\ hist.nRewr > 0
  /\ st.query = <<"what">>
  /\ st.rewritten_queries = << <<"what">>, <<"the">>, <<"the", "the">> >>

\* ---------------------------------------------------------------- C33
\* C33: each execution of the query rewriter raises rewrite_count by exactly
\* 1, the first one of a run included; every other node of the graph leaves
\* it unchanged; so at any point of a run rewrite_count is the number of
\* rewriter executions so far.
C33_RewriteCountOwner ==
  [][/\ (pc = "query_rewriter" /\ pc' # pc)
          => Get(st', "rewrite_count", 0) = Get(st, "rewrite_count", 0) + 1
     /\ (pc \notin {"idle", "query_rewriter", "END", "raised"} /\ pc' # pc)
          => Get(st', "rewrite_count", 0) = Get(st, "rewrite_count", 0)
     /\ pc' \notin {"idle"} => Get(st', "rewrite_count", 0) = hist'.nRewr
    ]_vars

\* A run in which the rewriter ran twice, with nodes of other kinds run in
\* between and after: rewrite_count is 2.
C33_Witness ==
  /\ pc = "generator"
  /\ hist.nRewr = 2
  /\ hist.nGen >= 2
  /\ hist.nRetr = 2
  /\ st.rewrite_count = 2

\* ---------------------------------------------------------------- C34
\* The replies of the analyzer's LLM call with every strategy the validation
\* tells apart.
AnalyzerReplies ==
  [parsed : BOOLEAN, query_type : {"simple", "multi_hop", "bogus"},
   strategy : {"single", "decompose", "bogus"}]

\* C34: whenever the analyzer runs, a reply that cannot be parsed, or whose
\* query_type is none of simple, multi_hop, math, comparison, or whose
\* strategy is none of single, decompose, step_back, makes
\* query_analyzer_node return query_type = simple together with strategy =
\* single.
C34_InvalidGivesSimpleSingle ==
  [][(pc = "query_analyzer" /\ pc' # pc) =>
       \A resp \in AnalyzerReplies :
         (\/ ~resp.parsed
          \/ resp.query_type \notin QUERY_TYPES
          \/ resp.strategy \notin STRATEGIES)
           => query_analyzer_node(st, resp)
                = [query_type |-> "simple", strategy |-> "single"]
    ]_vars

\* ---------------------------------------------------------------- C35
\* C35: rerank hands the retrieval node a pair (ranked, top_score), so that
\* whenever candidates are left after the filter the node returns, with the
\* first RERANK_TOP_N candidates at most as its chunks and found set; without
\* candidates it returns the empty list.
C35_RerankPair ==
  [][(pc = "retrieval" /\ pc' # pc) =>
       /\ retrieved' # <<>>
            => /\ pc' = "generator"
               /\ Len(st'.chunks) = Min(Len(retrieved'), RERANK_TOP_N)
               /\ st'.found
       /\ (retrieved' = <<>> /\ pc' = "generator") => st'.chunks = <<>>
    ]_vars

\* ---------------------------------------------------------------- C36
\* C36: after any sequence of completed ingest_document and delete_document
\* calls, metadata.json and bm25_chunks.json hold the same chunks in the same
\* order (and the one exists exactly when the other does).
C36_DualIndexSameChunks ==
  /\ index.meta.present = index.bchunks.present
  /\ index.meta.content = index.bchunks.content

\* Two documents were ingested and one of them deleted: the index was rebuilt
\* from the remaining PDF and both lists hold its chunks.
C36_Witness ==
  /\ nextDoc = MaxDocs
  /\ deleted # {}
  /\ index.meta.present
  /\ index.meta.content # <<>>

\* ---------------------------------------------------------------- C37
\* C37: the route router_node sets is rag, summarize or chat, never error, and
\* no run stands at or has passed the error terminal node or carries its
\* "No sources available" answer.
C37_ErrorUnreachable ==
  /\ "route" \in st.keys => st.route \in {"rag", "summarize", "chat"}
  /\ pc # "error"
  /\ hist.terminal # "error"
  /\ Get(st, "answer", "") # NO_SOURCES
  /\ response.body.answer # NO_SOURCES

\* The router has run on a session with no document selected and web mode
\* off, and sent the run to the generator on the chat route.
C37_Witness ==
  /\ pc = "generator"
  /\ hist.nGen = 0
  /\ st.route = "chat"
  /\ st.selected_doc_ids = {}
  /\ ~st.web_mode

\* ====== SpecToggle: the cache across selection and web-mode changes
\* cache_set as run_chat calls it at the end of a run, between completed
\* ingest_document, toggle_document_selection and toggle_web_mode calls.
NextToggle == CacheSet \/ IngestDocument \/ ToggleSelection \/ ToggleWebMode

SpecToggle == InitStore /\ [][NextToggle]_vars

\* ---------------------------------------------------------------- C38
\* C38: once toggle_document_selection or toggle_web_mode has changed the
\* selected documents or the web mode of the session, the cache probe of
\* run_chat finds no answer for any query of the session: no response
\* computed under the earlier selection and web mode is served.
C38_ToggleDropsCachedAnswers ==
  [][(/\ {d.id : d \in documents'} = {d.id : d \in documents}
      /\ \/ get_selected_doc_ids(documents') # get_selected_doc_ids(documents)
         \/ webMode' # webMode)
       => \A query \in Queries : cache_get(cache', sid, query, now').is_none
    ]_vars

\* ---------------------------------------------------------------- C39
\* C39: whenever no ingest_document or delete_document call is under way,
\* calls that failed part-way or ran concurrently included, every chunk of the
\* persisted index (metadata.json and bm25_chunks.json) carries the doc_id of
\* a Document row of the session, and every Document row with chunk_count > 0
\* has exactly chunk_count chunks in each of the two lists.
C39_IndexMatchesDocuments ==
  (\A w \in Writers : wr[w].pc \in {"idle", "done", "crashed", "raised"}) =>
    \A content \in {index.meta.content, index.bchunks.content} :
      /\ \A i \in 1..Len(content) :
           \E d \in documents : d.id = content[i].doc_id
      /\ \A d \in documents :
           d.chunk_count > 0 =>
             Cardinality({i \in 1..Len(content) : content[i].doc_id = d.id})
               = d.chunk_count

\* ================= SpecGet: cache_get calls of two threads, step by step
\* No lock guards _cache: `_cache.get(key)` and `del _cache[key]` are steps of
\* their own, and other threads run between them.
\* cache_get up to the TTL test: the entry is read; a missing entry returns
\* None, a fresh one its result, an expired one goes on to the del.
CacheGetRead(t) ==
  /\ cg[t].pc = "idle"
  /\ \E s \in SessionIds, q \in Queries :
       LET key == make_key(s, q)
           entry == cache[key]
       IN cg' = [cg EXCEPT ![t] =
                   [pc |-> IF entry.present /\ now - entry.ts > TTL_SECONDS
                             THEN "del" ELSE "returned",
                    key |-> key, entry |-> entry,
                    result |-> IF entry.present /\ now - entry.ts <= TTL_SECONDS
                                 THEN entry.result ELSE NoneResult]]
  /\ UNCHANGED <<envVars, cache, stored, clockVars, runVars, retrieved, lastGet,
                 histVars, wr, rd, fu, upload>>

\* `del _cache[key]`: KeyError when the key is no longer held.
CacheGetDel(t) ==
  /\ cg[t].pc = "del"
  /\ IF cache[cg[t].key].present
       THEN /\ cache' = [cache EXCEPT ![cg[t].key] = NoEntry]
            /\ cg' = [cg EXCEPT ![t].pc = "returned"]
       ELSE /\ cache' = cache
            /\ cg' = [cg EXCEPT ![t].pc = "raised"]
  /\ UNCHANGED <<envVars, stored, clockVars, runVars, retrieved, lastGet,
                 histVars, wr, rd, fu, upload>>

NextGet ==
  \/ Tick
  \/ CacheSet
  \/ \E t \in Getters : CacheGetRead(t) \/ CacheGetDel(t)

SpecGet == InitCache /\ [][NextGet]_vars

\* ---------------------------------------------------------------- C40
\* C40: of two threads inside cache_get at once, for the same expired key or
\* beside a thread that overwrites or removes the entry, neither raises and
\* each returns None or a stored result; once both have returned, an entry a
\* call found expired is no longer in the cache.
C40_ConcurrentGetSafe ==
  /\ \A t \in Getters : cg[t].pc # "raised"
  /\ \A t \in Getters :
       cg[t].pc = "returned" =>
         \/ cg[t].result.is_none
         \/ cg[t].result = cg[t].entry.result
  /\ (\A t \in Getters : cg[t].pc = "returned") =>
       \A t \in Getters :
         (cg[t].entry.present /\ cg[t].result.is_none)
           => cache[cg[t].key] # cg[t].entry

====
